---- MODULE Spec2Model ----
(***************************************************************************)
(* Multi-timeframe market-structure and trade-signal engine.               *)
(*                                                                         *)
(* The module models src/live_strategy_functions.py (the strategy          *)
(* functions) and the scan loop of src/main.py.                            *)
(*                                                                         *)
(* Conventions                                                             *)
(*  - A candle is a record [ts, High, Low, Close]; Open and Volume are     *)
(*    never read by any strategy function or by the loop and are left out. *)
(*  - A DataFrame (buffer or window) is a sequence of candles, oldest      *)
(*    first; df.iloc[i] is df[i+1].                                        *)
(*  - Python None for a tuple-valued name is the empty tuple None_;        *)
(*    for a string-valued name it is the string NoneStr.                   *)
(*  - Python tuples are TLA+ tuples; Python index [i] is TLA+ index [i+1]. *)
(*  - Prices are exact: candle prices are integers, products with the      *)
(*    fractional parameters (tolerance, stop-loss percentage, risk/reward) *)
(*    are compared by cross-multiplication, and the stop-loss/take-profit  *)
(*    of a position are kept in units of 1/Scale.  Floating-point rounding *)
(*    is not modelled; the price sets below are chosen so that the float   *)
(*    comparisons of the code agree with the exact ones.                   *)
(*  - Values that reach define_entry_conditions_live as "levels" are       *)
(*    tagged (Float, Str, NaN), because the code indexes tuples whose      *)
(*    members are a float and a string and compares what it finds.         *)
(*  - main.py reads np and pd without importing them; they are taken to be *)
(*    bound (the file is a notebook cell, see its first line).             *)
(***************************************************************************)
EXTENDS Integers, Sequences, FiniteSets, TLC

VARIABLES
    \* ---- src/main.py module state -------------------------------------
    iteration,                     \* loop index of the next scan cycle
    ltf_data_buffer,
    mtf_data_buffer,
    htf_data_buffer,
    last_confirmed_sh,
    last_confirmed_sl,
    confirmed_sh_history,
    confirmed_sl_history,
    current_htf_market_structure,
    current_htf_bos,
    current_htf_supply_zone,
    current_htf_demand_zone,
    last_confirmed_res_mtf,
    last_confirmed_sup_mtf,
    potential_rts_levels,
    potential_str_levels,
    current_mtf_bullish_fvg,
    current_mtf_bearish_fvg,
    current_mtf_rts_signal,
    current_mtf_str_signal,
    open_trade,
    trade_counter,
    long_signal,                   \* loop-body names are module globals too
    short_signal,
    fvg_result,
    exit_price,
    trade_result,
    \* ---- the process and its boundary ----------------------------------
    pc,                            \* "running" | "TypeError" (unhandled exception)
    outbox,                        \* what was handed to the notifier, in order
    notifier,                      \* the TelegramNotifier: base_url, and how its last send ended
    feed,                          \* the market and its recorded stretch still to be replayed
    live,                          \* number of cycles fed with live (free) candles
    \* ---- a direct call of one strategy function ------------------------
    frame                          \* the call's arguments and result, or NoFrame

mainVars == <<iteration, ltf_data_buffer, mtf_data_buffer, htf_data_buffer,
              last_confirmed_sh, last_confirmed_sl, confirmed_sh_history,
              confirmed_sl_history, current_htf_market_structure, current_htf_bos,
              current_htf_supply_zone, current_htf_demand_zone,
              last_confirmed_res_mtf, last_confirmed_sup_mtf,
              current_mtf_bullish_fvg, current_mtf_bearish_fvg,
              open_trade, trade_counter, long_signal, short_signal, fvg_result,
              exit_price, trade_result, pc, outbox, notifier, feed, live>>

retestVars == <<potential_rts_levels, potential_str_levels,
                current_mtf_rts_signal, current_mtf_str_signal>>

vars == <<mainVars, retestVars, frame>>

-----------------------------------------------------------------------------
(* Python values *)

None_ == <<>>
NoneStr == "None"
\* exit_price = None
NoPrice == -1

Float(n) == [k |-> "float", n |-> n, s |-> ""]
Str(s) == [k |-> "str", n |-> 0, s |-> s]
NaN == [k |-> "nan", n |-> 0, s |-> ""]

\* pd.notna: false for nan only (a string is "not NA")
notna(v) == v.k # "nan"

Abs(x) == IF x < 0 THEN -x ELSE x

-----------------------------------------------------------------------------
(* Parameters of src/main.py *)

htf_window_size_sh_sl == 2
mtf_window_size_sr == 5
BufferKeep == 100
HistoryKeep == 5
Iterations == 100
mtf_interval_minutes == 15
htf_interval_minutes == 60

\* retest_tolerance_percent = 0.0005 = TolNum / TolDen
TolNum == 5
TolDen == 10000
\* sl_percentage = 0.005 = SlNum / SlDen
SlNum == 5
SlDen == 1000
\* rr_ratio = 1.5 = RrNum / RrDen
RrNum == 3
RrDen == 2

\* stop-loss, take-profit, exit price and PnL are kept in units of 1/Scale
Scale == SlDen * RrDen
Money(p) == p * Scale

-----------------------------------------------------------------------------
(* src/live_strategy_functions.py *)

Highs(df) == {df[i].High : i \in 1..Len(df)}
Lows(df) == {df[i].Low : i \in 1..Len(df)}
SetMax(S) == CHOOSE m \in S : \A x \in S : x <= m
SetMin(S) == CHOOSE m \in S : \A x \in S : m <= x

\* A mutation of find_swing_highs_live: the centre must exceed every other high.
find_swing_highs_strict(df_window, window_size) ==
    IF Len(df_window) < 2 * window_size + 1 THEN None_
    ELSE LET candidate == df_window[window_size + 1]
         IN  IF \A i \in 1..(2 * window_size + 1) :
                    i # window_size + 1 => df_window[i].High < candidate.High
             THEN <<candidate.ts, candidate.High>>
             ELSE None_

\* A mutation of find_swing_highs_live: a window shorter than 2w+1 is judged
\* on its middle candle.
find_swing_highs_short(df_window, window_size) ==
    IF df_window = <<>> THEN None_
    ELSE LET n == IF Len(df_window) < 2 * window_size + 1 THEN Len(df_window)
                  ELSE 2 * window_size + 1
             candidate == df_window[(n + 1) \div 2]
         IN  IF candidate.High = SetMax(Highs(SubSeq(df_window, 1, n)))
             THEN <<candidate.ts, candidate.High>>
             ELSE None_

find_swing_highs_live(df_window, window_size) ==
    IF Len(df_window) < 2 * window_size + 1 THEN None_
    ELSE LET candidate == df_window[window_size + 1]
             slice == SubSeq(df_window, 1, 2 * window_size + 1)
         IN  IF candidate.High = SetMax(Highs(slice))
             THEN <<candidate.ts, candidate.High>>
             ELSE None_

find_swing_lows_live(df_window, window_size) ==
    IF Len(df_window) < 2 * window_size + 1 THEN None_
    ELSE LET candidate == df_window[window_size + 1]
             slice == SubSeq(df_window, 1, 2 * window_size + 1)
         IN  IF candidate.Low = SetMin(Lows(slice))
             THEN <<candidate.ts, candidate.Low>>
             ELSE None_

find_resistance_live(df_window, window_size) ==
    find_swing_highs_live(df_window, window_size)

find_support_live(df_window, window_size) ==
    find_swing_lows_live(df_window, window_size)

\* A mutation of BullishGap: the two comparisons are reversed.
BullishGap_reversed(candle1, candle2, candle3) ==
    candle1.Low < candle3.High /\ candle3.High > candle2.Low

\* line 97: the test for a bullish gap
BullishGap(candle1, candle2, candle3) ==
    candle1.Low > candle3.High /\ candle3.High < candle2.Low

\* line 103: the test for a bearish gap
BearishGap(candle1, candle2, candle3) ==
    candle1.High < candle3.Low /\ candle3.Low > candle2.High

\* A mutation of find_fair_value_gaps_live: the level is the third candle's.
find_fair_value_gaps_third(df_last_3_candles) ==
    IF Len(df_last_3_candles) < 3 THEN None_
    ELSE LET candle1 == df_last_3_candles[1]
             candle2 == df_last_3_candles[2]
             candle3 == df_last_3_candles[3]
         IN  IF BullishGap(candle1, candle2, candle3)
             THEN <<Str("BullishFVG"), Float(candle3.High)>>
             ELSE IF BearishGap(candle1, candle2, candle3)
             THEN <<Str("BearishFVG"), Float(candle3.Low)>>
             ELSE None_

find_fair_value_gaps_live(df_last_3_candles) ==
    IF Len(df_last_3_candles) < 3 THEN None_
    ELSE LET candle1 == df_last_3_candles[1]
             candle2 == df_last_3_candles[2]
             candle3 == df_last_3_candles[3]
         IN  IF BullishGap(candle1, candle2, candle3)
             THEN <<Str("BullishFVG"), Float(candle1.Low)>>
             ELSE IF BearishGap(candle1, candle2, candle3)
             THEN <<Str("BearishFVG"), Float(candle1.High)>>
             ELSE None_

\* A mutation of determine_market_structure_live: the order in time of the last
\* swing high and the last swing low is not looked at.
market_structure_any_order(current_candle_htf, sh_history, sl_history) ==
    IF Len(sh_history) >= 2 /\ Len(sl_history) >= 2
    THEN LET sh2 == sh_history[Len(sh_history)]
             sh1 == sh_history[Len(sh_history) - 1]
             sl2 == sl_history[Len(sl_history)]
             sl1 == sl_history[Len(sl_history) - 1]
         IN  IF sh2[2] > sh1[2] /\ sl2[2] > sl1[2] THEN "Bullish"
             ELSE IF sl2[2] < sl1[2] /\ sh2[2] < sh1[2] THEN "Bearish"
             ELSE "Ranging"
    ELSE "Ranging"

determine_market_structure_live(current_candle_htf, sh_history, sl_history) ==
    IF Len(sh_history) >= 2 /\ Len(sl_history) >= 2
    THEN LET sh2 == sh_history[Len(sh_history)]
             sh1 == sh_history[Len(sh_history) - 1]
             sl2 == sl_history[Len(sl_history)]
             sl1 == sl_history[Len(sl_history) - 1]
             is_hh == sh2[2] > sh1[2]
             is_hl == sl2[2] > sl1[2]
             is_ll == sl2[2] < sl1[2]
             is_lh == sh2[2] < sh1[2]
         IN  IF is_hh /\ is_hl /\ sl2[1] > sh2[1] THEN "Bullish"
             ELSE IF is_ll /\ is_lh /\ sh2[1] > sl2[1] THEN "Bearish"
             ELSE "Ranging"
    ELSE "Ranging"

\* A mutation of identify_bos_live: a close at the swing's price breaks it too.
identify_bos_at_level(current_candle_htf, market_structure, sh, sl) ==
    IF market_structure = "Bullish" /\ sh # None_
    THEN IF current_candle_htf.ts > sh[1] /\ current_candle_htf.Close >= sh[2]
         THEN "Bullish BOS" ELSE NoneStr
    ELSE IF market_structure = "Bearish" /\ sl # None_
    THEN IF current_candle_htf.ts > sl[1] /\ current_candle_htf.Close <= sl[2]
         THEN "Bearish BOS" ELSE NoneStr
    ELSE NoneStr

\* A mutation of identify_bos_live: the regime is not looked at, and the
\* candle's high and low are compared in place of its close, ties included.
identify_bos_by_range(current_candle_htf, market_structure, sh, sl) ==
    IF sh # None_ /\ current_candle_htf.ts > sh[1] /\ current_candle_htf.High >= sh[2]
    THEN "Bullish BOS"
    ELSE IF sl # None_ /\ current_candle_htf.ts > sl[1] /\ current_candle_htf.Low <= sl[2]
    THEN "Bearish BOS"
    ELSE NoneStr

identify_bos_live(current_candle_htf, market_structure, sh, sl) ==
    IF market_structure = "Bullish" /\ sh # None_
    THEN IF current_candle_htf.ts > sh[1] /\ current_candle_htf.Close > sh[2]
         THEN "Bullish BOS" ELSE NoneStr
    ELSE IF market_structure = "Bearish" /\ sl # None_
    THEN IF current_candle_htf.ts > sl[1] /\ current_candle_htf.Close < sl[2]
         THEN "Bearish BOS" ELSE NoneStr
    ELSE NoneStr

\* A mutation of mark_supply_demand_zones_live: the two levels change places.
mark_supply_demand_zones_swapped(latest_confirmed_sh, latest_confirmed_sl) ==
    <<IF latest_confirmed_sl # None_ THEN Float(latest_confirmed_sl[2]) ELSE NaN,
      IF latest_confirmed_sh # None_ THEN Float(latest_confirmed_sh[2]) ELSE NaN>>

mark_supply_demand_zones_live(latest_confirmed_sh, latest_confirmed_sl) ==
    <<IF latest_confirmed_sh # None_ THEN Float(latest_confirmed_sh[2]) ELSE NaN,
      IF latest_confirmed_sl # None_ THEN Float(latest_confirmed_sl[2]) ELSE NaN>>

InSeq(x, seq) == \E i \in 1..Len(seq) : seq[i] = x

\* list.remove(item): drops the first occurrence
RemoveFirst(seq, item) ==
    IF ~InSeq(item, seq) THEN seq
    ELSE LET i == CHOOSE j \in 1..Len(seq) :
                      seq[j] = item /\ \A h \in 1..(j - 1) : seq[h] # item
         IN  SubSeq(seq, 1, i - 1) \o SubSeq(seq, i + 1, Len(seq))

\* for item in newly_confirmed: if item in levels: levels.remove(item)
RECURSIVE RemoveEach(_, _)
RemoveEach(levels, newly_confirmed) ==
    IF newly_confirmed = <<>> THEN levels
    ELSE RemoveEach(IF InSeq(Head(newly_confirmed), levels)
                    THEN RemoveFirst(levels, Head(newly_confirmed))
                    ELSE levels,
                    Tail(newly_confirmed))

\* abs(price - level) / level <= tolerance, for level > 0; tolerance = tol / TolDen
WithinTolerance(price, level, tol) == Abs(price - level) * TolDen <= tol * level

\* A mutation of BreachAppend: the list is assigned the new entry, not appended to.
BreachAppend_replace(levels, last_confirmed, broken, current_timestamp) ==
    IF last_confirmed # None_ /\ broken /\ current_timestamp > last_confirmed[1]
       /\ ~InSeq(<<last_confirmed[2], last_confirmed[1]>>, levels)
    THEN << <<last_confirmed[2], current_timestamp>> >>
    ELSE levels

\* lines 224-228 (resistance) and 230-233 (support): the breach step
BreachAppend(levels, last_confirmed, broken, current_timestamp) ==
    IF last_confirmed # None_ /\ broken /\ current_timestamp > last_confirmed[1]
       /\ ~InSeq(<<last_confirmed[2], last_confirmed[1]>>, levels)
    THEN Append(levels, <<last_confirmed[2], current_timestamp>>)
    ELSE levels

\* A mutation of RtsRetest: the test that the retest is later than the breach is lost.
RtsRetest_any_time(entry, candle, tol) ==
    /\ WithinTolerance(candle.Low, entry[1], tol)
    /\ candle.Close > entry[1]

\* line 238-240: the retest test of one pending RTS entry
RtsRetest(entry, candle, tol) ==
    /\ candle.ts > entry[2]
    /\ WithinTolerance(candle.Low, entry[1], tol)
    /\ candle.Close > entry[1]

\* line 251-253: the retest test of one pending STR entry
StrRetest(entry, candle, tol) ==
    /\ candle.ts > entry[2]
    /\ WithinTolerance(candle.High, entry[1], tol)
    /\ candle.Close < entry[1]

\* A mutation of LastSignal: the first confirming entry's level is kept.
LastSignal_first(newly_confirmed, label) ==
    IF newly_confirmed = <<>> THEN None_
    ELSE <<Float(newly_confirmed[1][1]), Str(label)>>

\* lines 241 and 254: the signal left by the loop is the last confirming entry's
LastSignal(newly_confirmed, label) ==
    IF newly_confirmed = <<>> THEN None_
    ELSE <<Float(newly_confirmed[Len(newly_confirmed)][1]), Str(label)>>

\* The lists are modified in place: the result carries them with the signals.
identify_str_rts_live(current_candle_mtf, last_confirmed_res, last_confirmed_sup, rts_levels, str_levels, tol) ==
    LET rts1 == BreachAppend(rts_levels, last_confirmed_res,
                             last_confirmed_res # None_
                               /\ current_candle_mtf.Close > last_confirmed_res[2],
                             current_candle_mtf.ts)
        str1 == BreachAppend(str_levels, last_confirmed_sup,
                             last_confirmed_sup # None_
                               /\ current_candle_mtf.Close < last_confirmed_sup[2],
                             current_candle_mtf.ts)
        RtsTest(e) == RtsRetest(e, current_candle_mtf, tol)
        StrTest(e) == StrRetest(e, current_candle_mtf, tol)
        newly_confirmed_rts == SelectSeq(rts1, RtsTest)
        newly_confirmed_str == SelectSeq(str1, StrTest)
    IN  [rts_signal_info |-> LastSignal(newly_confirmed_rts, "RTS"),
         str_signal_info |-> LastSignal(newly_confirmed_str, "STR"),
         potential_rts_levels |-> RemoveEach(rts1, newly_confirmed_rts),
         potential_str_levels |-> RemoveEach(str1, newly_confirmed_str)]

\* The outcome of  price <= level and price >= level * (1 - tolerance):
\* a float compared with a string raises TypeError.
TouchBelow(price, level, tol) ==
    IF level.k = "str" THEN "TypeError"
    ELSE IF price <= level.n /\ price * TolDen >= level.n * (TolDen - tol)
    THEN "yes" ELSE "no"

\* The outcome of  price >= level and price <= level * (1 + tolerance)
TouchAbove(price, level, tol) ==
    IF level.k = "str" THEN "TypeError"
    ELSE IF price >= level.n /\ price * TolDen <= level.n * (TolDen + tol)
    THEN "yes" ELSE "no"

\* A mutation of PriorityChecks: the second level is tested before the first.
PriorityChecks_second_first(touches, levels, side, labels) ==
    LET c2 == IF notna(levels[2]) THEN touches[2] ELSE "no"
        c1 == IF c2 = "no" /\ notna(levels[1]) THEN touches[1] ELSE "no"
        c3 == IF c1 = "no" /\ c2 = "no" /\ notna(levels[3]) THEN touches[3] ELSE "no"
    IN  IF "TypeError" \in {c1, c2, c3} THEN [exc |-> "TypeError", signal |-> None_]
        ELSE IF c2 = "yes" THEN [exc |-> "none", signal |-> <<side, labels[2]>>]
        ELSE IF c1 = "yes" THEN [exc |-> "none", signal |-> <<side, labels[1]>>]
        ELSE IF c3 = "yes" THEN [exc |-> "none", signal |-> <<side, labels[3]>>]
        ELSE [exc |-> "none", signal |-> None_]

\* Lines 300-315 (long) and 320-335 (short): three checks in order.  touches[i]
\* is what the comparison against levels[i] yields; the comparison is made only
\* if levels[i] is not NaN and no earlier check has set the signal.
PriorityChecks(touches, levels, side, labels) ==
    LET c1 == IF notna(levels[1]) THEN touches[1] ELSE "no"
        c2 == IF c1 = "no" /\ notna(levels[2]) THEN touches[2] ELSE "no"
        c3 == IF c1 = "no" /\ c2 = "no" /\ notna(levels[3]) THEN touches[3] ELSE "no"
    IN  IF "TypeError" \in {c1, c2, c3} THEN [exc |-> "TypeError", signal |-> None_]
        ELSE IF c1 = "yes" THEN [exc |-> "none", signal |-> <<side, labels[1]>>]
        ELSE IF c2 = "yes" THEN [exc |-> "none", signal |-> <<side, labels[2]>>]
        ELSE IF c3 = "yes" THEN [exc |-> "none", signal |-> <<side, labels[3]>>]
        ELSE [exc |-> "none", signal |-> None_]

\* tuple[0] if tuple else np.nan
LevelOf(signal_info) == IF signal_info # None_ THEN signal_info[1] ELSE NaN

\* A mutation of RegimeBranch: every regime but Bearish runs the long checks.
RegimeBranch_long_unless_bearish(htf_market_structure, bull, bear) ==
    IF htf_market_structure = "Bearish"
    THEN [exc |-> bear.exc, long_signal |-> None_, short_signal |-> bear.signal]
    ELSE [exc |-> bull.exc, long_signal |-> bull.signal, short_signal |-> None_]

\* Lines 286-287, 298, 318, 337: which branch runs, and what is returned
RegimeBranch(htf_market_structure, bull, bear) ==
    IF htf_market_structure = "Bullish"
    THEN [exc |-> bull.exc, long_signal |-> bull.signal, short_signal |-> None_]
    ELSE IF htf_market_structure = "Bearish"
    THEN [exc |-> bear.exc, long_signal |-> None_, short_signal |-> bear.signal]
    ELSE [exc |-> "none", long_signal |-> None_, short_signal |-> None_]

\* exc = "TypeError": the call raised and returned nothing
define_entry_conditions_live(current_candle_ltf, htf_market_structure, htf_supply_zone_level, htf_demand_zone_level, mtf_bullish_fvg, mtf_bearish_fvg, mtf_rts_signal_info, mtf_str_signal_info, tol) ==
    LET current_ltf_low == current_candle_ltf.Low
        current_ltf_high == current_candle_ltf.High
        mtf_bullish_fvg_level == LevelOf(mtf_bullish_fvg)
        mtf_bearish_fvg_level == LevelOf(mtf_bearish_fvg)
        mtf_rts_level == LevelOf(mtf_rts_signal_info)
        mtf_str_level == LevelOf(mtf_str_signal_info)
        long_levels == <<htf_demand_zone_level, mtf_bullish_fvg_level, mtf_rts_level>>
        short_levels == <<htf_supply_zone_level, mtf_bearish_fvg_level, mtf_str_level>>
        bull == PriorityChecks(
                    [i \in 1..3 |-> TouchBelow(current_ltf_low, long_levels[i], tol)],
                    long_levels, "Long Entry",
                    <<"4h Demand Retest", "MTF FVG Retest", "MTF RTS Level Retest">>)
        bear == PriorityChecks(
                    [i \in 1..3 |-> TouchAbove(current_ltf_high, short_levels[i], tol)],
                    short_levels, "Short Entry",
                    <<"4h Supply Retest", "MTF FVG Retest", "MTF STR Level Retest">>)
    IN  RegimeBranch(htf_market_structure, bull, bear)

\* A mutation of define_exit_conditions_live: take-profit is tested first.
exit_take_profit_first(current_candle_ltf, open_trade_details) ==
    IF open_trade_details = None_ THEN <<NoPrice, NoneStr>>
    ELSE LET current_high == Money(current_candle_ltf.High)
             current_low == Money(current_candle_ltf.Low)
         IN  IF open_trade_details.Type = "Long"
             THEN IF current_high >= open_trade_details.TakeProfit
                  THEN <<open_trade_details.TakeProfit, "Win">>
                  ELSE IF current_low <= open_trade_details.StopLoss
                  THEN <<open_trade_details.StopLoss, "Loss">>
                  ELSE <<NoPrice, NoneStr>>
             ELSE IF open_trade_details.Type = "Short"
             THEN IF current_low <= open_trade_details.TakeProfit
                  THEN <<open_trade_details.TakeProfit, "Win">>
                  ELSE IF current_high >= open_trade_details.StopLoss
                  THEN <<open_trade_details.StopLoss, "Loss">>
                  ELSE <<NoPrice, NoneStr>>
             ELSE <<NoPrice, NoneStr>>

\* open_trade_details: None_ or [EntryTime, EntryPrice, Type, StopLoss, TakeProfit],
\* the three prices in units of 1/Scale.  Result: <<exit_price, trade_result>>;
\* exit_price None is NoPrice.
define_exit_conditions_live(current_candle_ltf, open_trade_details) ==
    IF open_trade_details = None_ THEN <<NoPrice, NoneStr>>
    ELSE LET current_high == Money(current_candle_ltf.High)
             current_low == Money(current_candle_ltf.Low)
         IN  IF open_trade_details.Type = "Long"
             THEN IF current_low <= open_trade_details.StopLoss
                  THEN <<open_trade_details.StopLoss, "Loss">>
                  ELSE IF current_high >= open_trade_details.TakeProfit
                  THEN <<open_trade_details.TakeProfit, "Win">>
                  ELSE <<NoPrice, NoneStr>>
             ELSE IF open_trade_details.Type = "Short"
             THEN IF current_high >= open_trade_details.StopLoss
                  THEN <<open_trade_details.StopLoss, "Loss">>
                  ELSE IF current_low <= open_trade_details.TakeProfit
                  THEN <<open_trade_details.TakeProfit, "Win">>
                  ELSE <<NoPrice, NoneStr>>
             ELSE <<NoPrice, NoneStr>>


-----------------------------------------------------------------------------
(* Construction: src/main.py lines 73-119 *)

(* src/telegram_notifier.py.  A send ends in one of: "skipped" (no base_url), *)
(* "sent", "failed" (an exception caught and printed), or the name of the    *)
(* exception that leaves send_message.                                       *)

\* what requests.post(url, data=payload, timeout=5).raise_for_status() does:
\* it returns, or raises one of the exceptions of requests
Posts == {"200", "HTTPError", "Timeout", "ConnectionError"}

\* lines 11-22: base_url is None unless both credentials are there
TelegramNotifier(raw_token, raw_chat_id) ==
    IF raw_token = NoneStr \/ raw_chat_id = NoneStr THEN NoneStr
    ELSE "https://api.telegram.org/bot"

\* A mutation of ExceptException: only the HTTP status error is caught.
ExceptException_http_only(raised) == raised = "HTTPError"

\* line 30: except Exception; every exception of requests derives from it
ExceptException(raised) == raised \in {"HTTPError", "Timeout", "ConnectionError"}

\* lines 24-31
send_message(base_url, post) ==
    IF base_url = NoneStr THEN "skipped"
    ELSE IF post = "200" THEN "sent"
    ELSE IF ExceptException(post) THEN "failed"
    ELSE post

\* the send let an exception out ("none": nothing was sent)
Raised(sent) == sent \notin {"none", "skipped", "sent", "failed"}

NoFrame == [fn |-> "none"]

\* main.py lines 73-104: the module's names before the loop
ModuleState ==
    /\ iteration = 0
    /\ ltf_data_buffer = <<>>
    /\ mtf_data_buffer = <<>>
    /\ htf_data_buffer = <<>>
    /\ last_confirmed_sh = None_
    /\ last_confirmed_sl = None_
    /\ confirmed_sh_history = <<>>
    /\ confirmed_sl_history = <<>>
    /\ current_htf_market_structure = "Ranging"
    /\ current_htf_bos = NoneStr
    /\ current_htf_supply_zone = NaN
    /\ current_htf_demand_zone = NaN
    /\ last_confirmed_res_mtf = None_
    /\ last_confirmed_sup_mtf = None_
    /\ potential_rts_levels = <<>>
    /\ potential_str_levels = <<>>
    /\ current_mtf_bullish_fvg = None_
    /\ current_mtf_bearish_fvg = None_
    /\ current_mtf_rts_signal = None_
    /\ current_mtf_str_signal = None_
    /\ open_trade = None_
    /\ trade_counter = 0
    /\ long_signal = None_
    /\ short_signal = None_
    /\ fvg_result = None_
    /\ exit_price = NoPrice
    /\ trade_result = NoneStr
    /\ pc = "running"
    /\ outbox = <<[event |-> "started"]>>
    /\ live = 0
    /\ frame = NoFrame

\* main.py lines 116-119: the notifier is made and the start message sent
Started(raw_token, raw_chat_id, post) ==
    [base_url |-> TelegramNotifier(raw_token, raw_chat_id),
     last |-> send_message(TelegramNotifier(raw_token, raw_chat_id), post)]

\* the state at the loop's first iteration, with both credentials configured
\* and the start message delivered
Construction == ModuleState /\ notifier = Started("set", "set", "200")

-----------------------------------------------------------------------------
(* Direct calls of the stateless strategy functions, on bounded inputs *)

Candle(ts, low, close, high) == [ts |-> ts, High |-> high, Low |-> low, Close |-> close]

Trade(time, type, stop, profit, entry) ==
    [EntryTime |-> time, EntryPrice |-> entry, Type |-> type,
     StopLoss |-> stop, TakeProfit |-> profit]

ExitPrices == {94, 95, 100, 110, 112}
ExitCandles == {Candle(1, l, l, h) : l \in ExitPrices, h \in {x \in ExitPrices : x >= 100}}
ExitTrades ==
    {None_} \cup
    {Trade(0, t, Money(sl), Money(tp), Money(100)) :
        t \in {"Long", "Short"}, sl \in {95, 110}, tp \in {95, 110}}

EntryCandles == {Candle(1, l, l, h) : l \in {1999, 2001, 2003}, h \in {2003, 2005, 2006}}
Regimes == {"Bullish", "Bearish", "Ranging"}
LongLevels == {2000, 2002}
ShortLevels == {2004, 2006}
ZoneLevels(S) == {NaN} \cup {Float(x) : x \in S}
\* (level, label) as define_entry_conditions_live documents its arguments
Documented(S, label) == {<<Float(x), Str(label)>> : x \in S}
\* (label, level) as find_fair_value_gaps_live returns its result
Detected(S, label) == {<<Str(label), Float(x)>> : x \in S}

CallExit ==
    /\ frame = NoFrame
    /\ \E c \in ExitCandles, t \in ExitTrades :
          frame' = [fn |-> "define_exit_conditions_live", candle |-> c, trade |-> t,
                    ret |-> define_exit_conditions_live(c, t)]
    /\ UNCHANGED <<mainVars, retestVars>>

CallEntry ==
    /\ frame = NoFrame
    /\ \E c \in EntryCandles, r \in Regimes,
          sz \in ZoneLevels(ShortLevels), dz \in ZoneLevels(LongLevels),
          bu \in {None_} \cup Documented(LongLevels, "BullishFVG")
                         \cup Detected({2000}, "BullishFVG"),
          be \in {None_} \cup Documented(ShortLevels, "BearishFVG")
                         \cup Detected({2004}, "BearishFVG"),
          rt \in {None_} \cup Documented(LongLevels, "RTS"),
          st \in {None_} \cup Documented(ShortLevels, "STR") :
          frame' = [fn |-> "define_entry_conditions_live", candle |-> c,
                    structure |-> r, supply |-> sz, demand |-> dz,
                    bullish_fvg |-> bu, bearish_fvg |-> be, rts |-> rt, str |-> st,
                    ret |-> define_entry_conditions_live(c, r, sz, dz, bu, be, rt, st,
                                                         TolNum)]
    /\ UNCHANGED <<mainVars, retestVars>>

\* the call returns and its frame is gone
Return ==
    /\ frame # NoFrame
    /\ frame' = NoFrame
    /\ UNCHANGED <<mainVars, retestVars>>

InitCalls == Construction /\ feed = [market |-> "flat", replay |-> <<>>]

NextPure == CallExit \/ CallEntry \/ Return

SpecPure == InitCalls /\ [][NextPure]_vars

-----------------------------------------------------------------------------
(* Direct calls of identify_str_rts_live on the pending-level lists, as     *)
(* src/main.py lines 165-168 makes them, with any candle and any last       *)
(* confirmed resistance/support.                                            *)

MaxTime == 3
MaxPending == 3

RetestPrices == {2000, 2001, 2002}
RetestCandles ==
    {Candle(t, l, c, h) : t \in 1..MaxTime, l \in RetestPrices,
                          c \in RetestPrices, h \in RetestPrices}
RetestCandlesWellFormed == {c \in RetestCandles : c.Low <= c.Close /\ c.Close <= c.High}
\* a level confirmed at the first instant, or just before the last one
LevelTimes == {1, MaxTime - 1}
ResistanceInputs == {None_} \cup {<<t, v>> : t \in LevelTimes, v \in {2000, 2001}}
SupportInputs == {None_} \cup {<<t, v>> : t \in LevelTimes, v \in {2001, 2002}}

CallRetest ==
    /\ frame = NoFrame
    /\ Len(potential_rts_levels) + Len(potential_str_levels) < MaxPending
    /\ \E c \in RetestCandlesWellFormed, res \in ResistanceInputs, sup \in SupportInputs :
          LET r == identify_str_rts_live(c, res, sup, potential_rts_levels,
                                         potential_str_levels, TolNum)
          IN  /\ potential_rts_levels' = r.potential_rts_levels
              /\ potential_str_levels' = r.potential_str_levels
              /\ current_mtf_rts_signal' = r.rts_signal_info
              /\ current_mtf_str_signal' = r.str_signal_info
              /\ frame' = [fn |-> "identify_str_rts_live", candle |-> c,
                           last_confirmed_res |-> res, last_confirmed_sup |-> sup,
                           rts_before |-> potential_rts_levels,
                           str_before |-> potential_str_levels]
    /\ UNCHANGED mainVars

ReturnRetest ==
    /\ frame # NoFrame
    /\ frame' = NoFrame
    /\ UNCHANGED <<mainVars, retestVars>>

NextRetest == CallRetest \/ ReturnRetest

SpecRetest == InitCalls /\ [][NextRetest]_vars

-----------------------------------------------------------------------------
(* Call after call of identify_str_rts_live on the same two lists, the      *)
(* candles in any order of time, remembering which entries were confirmed   *)
(* and removed so far (frame.rts_removed, frame.str_removed).               *)

AgainTimes == 1..4
\* closes above 2000 touching it or not, closes below 2002 touching it or not
AgainCandles ==
    UNION {{Candle(t, 2000, 2001, 2001), Candle(t, 2002, 2002, 2002),
            Candle(t, 2001, 2001, 2002), Candle(t, 2000, 2000, 2000)} : t \in AgainTimes}
AgainResistances == {None_, <<1, 2000>>, <<2, 2000>>}
AgainSupports == {None_, <<1, 2002>>, <<2, 2002>>}

\* the entries of before that the call took out
TakenOut(before, after) ==
    {before[i] : i \in {j \in 1..Len(before) :
        Cardinality({k \in 1..Len(after) : after[k] = before[j]})
            < Cardinality({k \in 1..Len(before) : before[k] = before[j]})}}

RemovedSoFar(side) ==
    IF frame = NoFrame THEN {}
    ELSE IF side = "RTS" THEN frame.rts_removed ELSE frame.str_removed

CallAgain ==
    /\ frame = NoFrame \/ frame.fn = "returned"
    /\ Len(potential_rts_levels) + Len(potential_str_levels) < MaxPending
    /\ \E c \in AgainCandles, res \in AgainResistances, sup \in AgainSupports :
          LET r == identify_str_rts_live(c, res, sup, potential_rts_levels,
                                         potential_str_levels, TolNum)
          IN  /\ potential_rts_levels' = r.potential_rts_levels
              /\ potential_str_levels' = r.potential_str_levels
              /\ current_mtf_rts_signal' = r.rts_signal_info
              /\ current_mtf_str_signal' = r.str_signal_info
              /\ frame' = [fn |-> "identify_str_rts_live again", candle |-> c,
                           last_confirmed_res |-> res, last_confirmed_sup |-> sup,
                           rts_before |-> potential_rts_levels,
                           str_before |-> potential_str_levels,
                           rts_removed_before |-> RemovedSoFar("RTS"),
                           str_removed_before |-> RemovedSoFar("STR"),
                           rts_removed |-> RemovedSoFar("RTS") \cup
                               TakenOut(potential_rts_levels, r.potential_rts_levels),
                           str_removed |-> RemovedSoFar("STR") \cup
                               TakenOut(potential_str_levels, r.potential_str_levels)]
    /\ UNCHANGED mainVars

\* between two calls only the memory of what was removed is kept
ReturnAgain ==
    /\ frame # NoFrame
    /\ frame.fn = "identify_str_rts_live again"
    /\ frame' = [fn |-> "returned", rts_removed |-> frame.rts_removed,
                 str_removed |-> frame.str_removed]
    /\ UNCHANGED <<mainVars, retestVars>>

NextAgain == CallAgain \/ ReturnAgain

SpecAgain == InitCalls /\ [][NextAgain]_vars

-----------------------------------------------------------------------------
(* Direct calls of the detectors: the swing functions on every window of    *)
(* 2w+1 candles, for the two half-windows the loop uses.                    *)

MaxSwingPrice == 3

\* the (low, high) pairs of the candles of a window
SwingShapes(w) ==
    IF w = htf_window_size_sh_sl
    THEN {<<l, h>> \in (1..MaxSwingPrice) \X (1..MaxSwingPrice) : l <= h}
    ELSE {<<1, 1>>, <<1, 2>>, <<2, 2>>}

\* a window of 2w+1 candles, one per instant
Windows(w) ==
    {[i \in 1..(2 * w + 1) |-> Candle(i, f[i][1], f[i][1], f[i][2])] :
        f \in [1..(2 * w + 1) -> SwingShapes(w)]}

CallSwing ==
    /\ frame = NoFrame
    /\ \E w \in {htf_window_size_sh_sl, mtf_window_size_sr} : \E df \in Windows(w) :
          frame' = [fn |-> "find_swing", df_window |-> df, window_size |-> w,
                    swing_high |-> find_swing_highs_live(df, w),
                    swing_low |-> find_swing_lows_live(df, w),
                    resistance |-> find_resistance_live(df, w),
                    support |-> find_support_live(df, w)]
    /\ UNCHANGED <<mainVars, retestVars>>

NextDetect == CallSwing \/ Return

SpecDetect == InitCalls /\ [][NextDetect]_vars

-----------------------------------------------------------------------------
(* Direct calls of the classifiers: regime, break of structure, fair value  *)
(* gap.                                                                     *)

MaxHistory == 3
MaxGapPrice == 4

\* swing (timestamp, value) pairs: earlier or later, lower or higher
Swings == {1, 2} \X {1, 2}
Histories == UNION {[1..n -> Swings] : n \in 0..MaxHistory}

CallStructure ==
    /\ frame = NoFrame
    /\ \E sh_history \in Histories, sl_history \in Histories :
          frame' = [fn |-> "determine_market_structure_live",
                    sh_history |-> sh_history, sl_history |-> sl_history,
                    ret |-> determine_market_structure_live(Candle(3, 1, 1, 1),
                                                            sh_history, sl_history)]
    /\ UNCHANGED <<mainVars, retestVars>>

\* a swing at instant 2 and price 2, or none; candles before, at and after
\* it, closing below, at and above it
CallBos ==
    /\ frame = NoFrame
    /\ \E t \in 1..3, close \in 1..3, structure \in Regimes,
          sh \in {None_, <<2, 2>>}, sl \in {None_, <<2, 2>>} :
          frame' = [fn |-> "identify_bos_live", candle |-> Candle(t, close, close, close),
                    structure |-> structure, sh |-> sh, sl |-> sl,
                    ret |-> identify_bos_live(Candle(t, close, close, close),
                                              structure, sh, sl)]
    /\ UNCHANGED <<mainVars, retestVars>>

GapShapes == {<<l, h>> \in (1..MaxGapPrice) \X (1..MaxGapPrice) : l <= h}

CallGap ==
    /\ frame = NoFrame
    /\ \E s1 \in GapShapes, s2 \in GapShapes, s3 \in GapShapes :
          LET df == <<Candle(1, s1[1], s1[1], s1[2]), Candle(2, s2[1], s2[1], s2[2]),
                      Candle(3, s3[1], s3[1], s3[2])>>
          IN  frame' = [fn |-> "find_fair_value_gaps_live", df |-> df,
                        ret |-> find_fair_value_gaps_live(df)]
    /\ UNCHANGED <<mainVars, retestVars>>

NextClassify == CallStructure \/ CallBos \/ CallGap \/ Return

SpecClassify == InitCalls /\ [][NextClassify]_vars

-----------------------------------------------------------------------------
(* The scan loop: src/main.py lines 124-269.  One action is one iteration.  *)
(*                                                                          *)
(* fetch_live_ohlcv is the market-data boundary: the candle it returns is   *)
(* an input (any candle with Low <= Close <= High), stamped with the time   *)
(* of the fetch.  dt.datetime.now() is later at every iteration; the stamp  *)
(* is the iteration's number, and the wall clock's hour and minute, which   *)
(* decide what closes, are inputs too.                                      *)

\* .iloc[-n:]
KeepLast(seq, n) == IF Len(seq) <= n THEN seq ELSE SubSeq(seq, Len(seq) - n + 1, Len(seq))

\* .iloc[-1]
LastOf(seq) == seq[Len(seq)]

\* pd.concat([buffer, new_candle]).iloc[-100:]
AppendCandle(buffer, shape, now) ==
    KeepLast(Append(buffer, Candle(now, shape.Low, shape.Close, shape.High)), BufferKeep)

\* lines 138-170: what the MTF block leaves in the names it assigns
MtfBlock(shape, now) ==
    LET buffer == AppendCandle(mtf_data_buffer, shape, now)
        current_mtf_candle == buffer[Len(buffer)]
        window == KeepLast(buffer, 2 * mtf_window_size_sr + 1)
        enough == Len(buffer) >= 2 * mtf_window_size_sr + 1
        res_tuple == IF enough THEN find_resistance_live(window, mtf_window_size_sr) ELSE None_
        sup_tuple == IF enough THEN find_support_live(window, mtf_window_size_sr) ELSE None_
        res == IF res_tuple # None_ THEN res_tuple ELSE last_confirmed_res_mtf
        sup == IF sup_tuple # None_ THEN sup_tuple ELSE last_confirmed_sup_mtf
        fvg == IF Len(buffer) >= 3 THEN find_fair_value_gaps_live(KeepLast(buffer, 3))
               ELSE fvg_result
        bullish == IF Len(buffer) >= 3 /\ fvg # None_ /\ fvg[1] = Str("BullishFVG")
                   THEN fvg ELSE current_mtf_bullish_fvg
        bearish == IF Len(buffer) >= 3 /\ fvg # None_ /\ fvg[1] # Str("BullishFVG")
                      /\ fvg[1] = Str("BearishFVG")
                   THEN fvg ELSE current_mtf_bearish_fvg
        r == identify_str_rts_live(current_mtf_candle, res, sup, potential_rts_levels,
                                   potential_str_levels, TolNum)
    IN  [mtf_data_buffer |-> buffer,
         last_confirmed_res_mtf |-> res,
         last_confirmed_sup_mtf |-> sup,
         fvg_result |-> fvg,
         current_mtf_bullish_fvg |-> bullish,
         current_mtf_bearish_fvg |-> bearish,
         current_mtf_rts_signal |-> r.rts_signal_info,
         current_mtf_str_signal |-> r.str_signal_info,
         potential_rts_levels |-> r.potential_rts_levels,
         potential_str_levels |-> r.potential_str_levels]

\* A mutation of MtfIdle: the RTS/STR signals last for one iteration only.
MtfIdle_signals_cleared ==
    [mtf_data_buffer |-> mtf_data_buffer,
     last_confirmed_res_mtf |-> last_confirmed_res_mtf,
     last_confirmed_sup_mtf |-> last_confirmed_sup_mtf,
     fvg_result |-> fvg_result,
     current_mtf_bullish_fvg |-> current_mtf_bullish_fvg,
     current_mtf_bearish_fvg |-> current_mtf_bearish_fvg,
     current_mtf_rts_signal |-> None_,
     current_mtf_str_signal |-> None_,
     potential_rts_levels |-> potential_rts_levels,
     potential_str_levels |-> potential_str_levels]

\* the same names in an iteration in which no MTF candle closes
MtfIdle ==
    [mtf_data_buffer |-> mtf_data_buffer,
     last_confirmed_res_mtf |-> last_confirmed_res_mtf,
     last_confirmed_sup_mtf |-> last_confirmed_sup_mtf,
     fvg_result |-> fvg_result,
     current_mtf_bullish_fvg |-> current_mtf_bullish_fvg,
     current_mtf_bearish_fvg |-> current_mtf_bearish_fvg,
     current_mtf_rts_signal |-> current_mtf_rts_signal,
     current_mtf_str_signal |-> current_mtf_str_signal,
     potential_rts_levels |-> potential_rts_levels,
     potential_str_levels |-> potential_str_levels]

\* A mutation of Remember: a full history keeps its oldest entries.
Remember_oldest(history, swing) ==
    IF swing # None_ /\ Len(history) < HistoryKeep THEN Append(history, swing)
    ELSE history

\* history.append(swing); history = history[-5:]
Remember(history, swing) ==
    IF swing # None_ THEN KeepLast(Append(history, swing), HistoryKeep) ELSE history

\* lines 175-209: what the HTF block leaves in the names it assigns
HtfBlock(shape, now) ==
    LET buffer == AppendCandle(htf_data_buffer, shape, now)
        current_htf_candle == buffer[Len(buffer)]
        window == KeepLast(buffer, 2 * htf_window_size_sh_sl + 1)
        enough == Len(buffer) >= 2 * htf_window_size_sh_sl + 1
        sh_tuple == IF enough THEN find_swing_highs_live(window, htf_window_size_sh_sl)
                    ELSE None_
        sl_tuple == IF enough THEN find_swing_lows_live(window, htf_window_size_sh_sl)
                    ELSE None_
        sh == IF sh_tuple # None_ THEN sh_tuple ELSE last_confirmed_sh
        sl == IF sl_tuple # None_ THEN sl_tuple ELSE last_confirmed_sl
        sh_history == Remember(confirmed_sh_history, sh_tuple)
        sl_history == Remember(confirmed_sl_history, sl_tuple)
        structure == determine_market_structure_live(current_htf_candle, sh_history,
                                                     sl_history)
        zones == mark_supply_demand_zones_live(sh, sl)
    IN  [htf_data_buffer |-> buffer,
         last_confirmed_sh |-> sh,
         last_confirmed_sl |-> sl,
         confirmed_sh_history |-> sh_history,
         confirmed_sl_history |-> sl_history,
         current_htf_market_structure |-> structure,
         current_htf_bos |-> identify_bos_live(current_htf_candle, structure, sh, sl),
         current_htf_supply_zone |-> zones[1],
         current_htf_demand_zone |-> zones[2]]

\* the same names in an iteration in which no HTF candle closes
HtfIdle ==
    [htf_data_buffer |-> htf_data_buffer,
     last_confirmed_sh |-> last_confirmed_sh,
     last_confirmed_sl |-> last_confirmed_sl,
     confirmed_sh_history |-> confirmed_sh_history,
     confirmed_sl_history |-> confirmed_sl_history,
     current_htf_market_structure |-> current_htf_market_structure,
     current_htf_bos |-> current_htf_bos,
     current_htf_supply_zone |-> current_htf_supply_zone,
     current_htf_demand_zone |-> current_htf_demand_zone]

\* line 138
MtfCloses(clock) == clock.minute % mtf_interval_minutes = 0
\* line 175: htf_interval_minutes / 60 is 1.0
HtfCloses(clock) == clock.hour % (htf_interval_minutes \div 60) = 0 /\ clock.minute = 0

\* A mutation of NewTrade: a Short gets the levels of a Long.
NewTrade_long_levels(type, candle) ==
    LET entry_price == Money(candle.Close)
        stop_loss == (candle.Close * (SlDen - SlNum)) * RrDen
        risk_amount == entry_price - stop_loss
        take_profit == entry_price + (risk_amount * RrNum) \div RrDen
    IN  Trade(candle.ts, type, stop_loss, take_profit, entry_price)

\* lines 224-236 and 242-254: the position opened at the candle's close
NewTrade(type, candle) ==
    LET entry_price == Money(candle.Close)
        stop_loss == IF type = "Long"
                     THEN (candle.Close * (SlDen - SlNum)) * RrDen
                     ELSE (candle.Close * (SlDen + SlNum)) * RrDen
        risk_amount == IF type = "Long" THEN entry_price - stop_loss
                       ELSE stop_loss - entry_price
        take_profit == IF type = "Long"
                       THEN entry_price + (risk_amount * RrNum) \div RrDen
                       ELSE entry_price - (risk_amount * RrNum) \div RrDen
    IN  Trade(candle.ts, type, stop_loss, take_profit, entry_price)

\* A mutation of AfterEntry: a signal opens a position whether or not one is open.
AfterEntry_any_time(trade, long, short, candle) ==
    IF long # None_ THEN NewTrade("Long", candle)
    ELSE IF short # None_ THEN NewTrade("Short", candle)
    ELSE trade

\* lines 222-257: the position after the entry step, given the two signals
AfterEntry(trade, long, short, candle) ==
    IF trade = None_
    THEN IF long # None_ THEN NewTrade("Long", candle)
         ELSE IF short # None_ THEN NewTrade("Short", candle)
         ELSE trade
    ELSE trade

\* lines 239 and 257: notifier.send_trade_signal
EntryNotice(trade) ==
    [event |-> "entry", Type |-> trade.Type, EntryPrice |-> trade.EntryPrice,
     StopLoss |-> trade.StopLoss, TakeProfit |-> trade.TakeProfit]

\* lines 263-265: notifier.send_message("Trade CLOSED ...")
ExitNotice(trade, price, result) ==
    [event |-> "exit", Type |-> trade.Type, Result |-> result, ExitPrice |-> price,
     PnL |-> IF trade.Type = "Long" THEN price - trade.EntryPrice
             ELSE trade.EntryPrice - price]

\* The end of an iteration: the names it has assigned.  ltf, m and h are what
\* lines 131-209 computed, signals is the entry evaluator's result, entered the
\* position after the entry step, exit the exit evaluator's result for it and
\* post what the Telegram API does with a message sent in this iteration.
Assign(ltf, m, h, signals, entered, exit, post) ==
    LET opened == open_trade = None_ /\ entered # None_
        entry_sent == IF opened THEN send_message(notifier.base_url, post) ELSE "none"
        checked == entered # None_ /\ ~(opened /\ Raised(entry_sent))
        closed == checked /\ exit[1] # NoPrice
        exit_sent == IF closed THEN send_message(notifier.base_url, post) ELSE "none"
    IN  /\ ltf_data_buffer' = ltf
        /\ mtf_data_buffer' = m.mtf_data_buffer
        /\ last_confirmed_res_mtf' = m.last_confirmed_res_mtf
        /\ last_confirmed_sup_mtf' = m.last_confirmed_sup_mtf
        /\ fvg_result' = m.fvg_result
        /\ current_mtf_bullish_fvg' = m.current_mtf_bullish_fvg
        /\ current_mtf_bearish_fvg' = m.current_mtf_bearish_fvg
        /\ current_mtf_rts_signal' = m.current_mtf_rts_signal
        /\ current_mtf_str_signal' = m.current_mtf_str_signal
        /\ potential_rts_levels' = m.potential_rts_levels
        /\ potential_str_levels' = m.potential_str_levels
        /\ htf_data_buffer' = h.htf_data_buffer
        /\ last_confirmed_sh' = h.last_confirmed_sh
        /\ last_confirmed_sl' = h.last_confirmed_sl
        /\ confirmed_sh_history' = h.confirmed_sh_history
        /\ confirmed_sl_history' = h.confirmed_sl_history
        /\ current_htf_market_structure' = h.current_htf_market_structure
        /\ current_htf_bos' = h.current_htf_bos
        /\ current_htf_supply_zone' = h.current_htf_supply_zone
        /\ current_htf_demand_zone' = h.current_htf_demand_zone
        /\ IF signals.exc # "none"
           THEN \* the exception leaves the loop: nothing below line 220 runs
                /\ pc' = "TypeError"
                /\ iteration' = iteration
                /\ UNCHANGED <<long_signal, short_signal, open_trade, trade_counter,
                               exit_price, trade_result, outbox, notifier>>
           ELSE /\ long_signal' = signals.long_signal
                /\ short_signal' = signals.short_signal
                /\ trade_counter' = IF opened THEN trade_counter + 1 ELSE trade_counter
                /\ exit_price' = IF checked THEN exit[1] ELSE exit_price
                /\ trade_result' = IF checked THEN exit[2] ELSE trade_result
                /\ outbox' = outbox
                      \o (IF opened THEN <<EntryNotice(entered)>> ELSE <<>>)
                      \o (IF closed THEN <<ExitNotice(entered, exit[1], exit[2])>>
                          ELSE <<>>)
                /\ notifier' = IF closed THEN [notifier EXCEPT !.last = exit_sent]
                               ELSE IF opened THEN [notifier EXCEPT !.last = entry_sent]
                               ELSE notifier
                /\ IF Raised(entry_sent)
                   THEN \* an exception out of line 239 or 257: the position is
                        \* recorded, nothing below runs
                        /\ pc' = entry_sent
                        /\ iteration' = iteration
                        /\ open_trade' = entered
                   ELSE IF Raised(exit_sent)
                   THEN \* an exception out of line 265: line 266 does not run
                        /\ pc' = exit_sent
                        /\ iteration' = iteration
                        /\ open_trade' = entered
                   ELSE /\ pc' = "running"
                        /\ iteration' = iteration + 1
                        /\ open_trade' = IF closed THEN None_ ELSE entered
        /\ frame' = frame

\* A mutation of ExitCheck: the exit evaluator is given the position held
\* before the iteration's entry step.
ExitCheck_before_entry(ltf, m, h, signals, entered, post) ==
    Assign(ltf, m, h, signals, entered,
           define_exit_conditions_live(LastOf(ltf), open_trade), post)

\* lines 260-261: the exit evaluator on the position the entry step left
ExitCheck(ltf, m, h, signals, entered, post) ==
    Assign(ltf, m, h, signals, entered,
           define_exit_conditions_live(LastOf(ltf), entered), post)

\* lines 222-257: the entry step on the evaluator's signals
EntryStep(ltf, m, h, signals, post) ==
    ExitCheck(ltf, m, h, signals,
              AfterEntry(open_trade, signals.long_signal, signals.short_signal,
                         LastOf(ltf)), post)

\* A mutation of EntryCheck: the evaluator is given the values cached before
\* the iteration's MTF and HTF blocks.
EntryCheck_before_blocks(ltf, m, h, post) ==
    EntryStep(ltf, m, h,
              define_entry_conditions_live(LastOf(ltf),
                  current_htf_market_structure,
                  current_htf_supply_zone, current_htf_demand_zone,
                  current_mtf_bullish_fvg, current_mtf_bearish_fvg,
                  current_mtf_rts_signal, current_mtf_str_signal, TolNum), post)

\* lines 213-220: the entry evaluator on what the blocks above left
EntryCheck(ltf, m, h, post) ==
    EntryStep(ltf, m, h,
              define_entry_conditions_live(LastOf(ltf),
                  h.current_htf_market_structure,
                  h.current_htf_supply_zone, h.current_htf_demand_zone,
                  m.current_mtf_bullish_fvg, m.current_mtf_bearish_fvg,
                  m.current_mtf_rts_signal, m.current_mtf_str_signal, TolNum), post)

\* One iteration of the loop on the clock reading, the candles fetched and
\* the Telegram API's answer to what the iteration sends, the candles stamped now.
Scan(in, now) ==
    /\ pc = "running"
    /\ iteration < Iterations
    /\ EntryCheck(AppendCandle(ltf_data_buffer, in.ltf, now),
                  IF MtfCloses(in.clock) THEN MtfBlock(in.mtf, now) ELSE MtfIdle,
                  IF HtfCloses(in.clock) THEN HtfBlock(in.htf, now) ELSE HtfIdle,
                  in.post)

\* An iteration while the clock runs forward: a later stamp at every iteration.
ScanCycle(in) == Scan(in, iteration + 1)

-----------------------------------------------------------------------------
(* What the loop is fed.  The regime needs two swing highs and two swing    *)
(* lows (nine HTF closes at least) and an MTF level needs eleven MTF        *)
(* candles, so a run starts by replaying a recorded stretch of market       *)
(* (feed.replay, possibly empty), and continues with MaxLive iterations on  *)
(* candles chosen freely from the shapes that market can print next.        *)

MaxLive == 3

Shape(low, close, high) == [Low |-> low, Close |-> close, High |-> high]
NoShape == Shape(0, 0, 0)
Input(hour, minute, ltf, mtf, htf) ==
    [clock |-> [hour |-> hour, minute |-> minute], ltf |-> ltf, mtf |-> mtf, htf |-> htf,
     post |-> "200"]

\* the same market upside down: a rising stretch becomes a falling one
MirrorPrice(p) == 4060 - p
Mirror(s) == IF s = NoShape THEN NoShape
             ELSE Shape(MirrorPrice(s.High), MirrorPrice(s.Close), MirrorPrice(s.Low))
MirrorInput(in) == [in EXCEPT !.ltf = Mirror(@), !.mtf = Mirror(@), !.htf = Mirror(@)]

\* A rising stretch, twelve iterations.  MTF: a resistance at 2025 (sixth
\* candle), confirmed at the eleventh and broken by the twelfth's close.
RisingMtf ==
    [n \in 1..12 |-> IF n = 6 THEN Shape(2012, 2015, 2025)
                     ELSE IF n = 12 THEN Shape(2015, 2030, 2032)
                     ELSE Shape(2010, 2015, 2020)]
\* HTF, closing from the fourth iteration on: swing highs 2040 and 2050,
\* swing lows 2000 and 2005, the higher low confirmed last.
RisingHtf ==
    <<Shape(2010, 2015, 2030), Shape(2010, 2015, 2030), Shape(2010, 2015, 2040),
      Shape(2000, 2005, 2030), Shape(2010, 2015, 2030), Shape(2020, 2025, 2050),
      Shape(2005, 2010, 2035), Shape(2010, 2015, 2030), Shape(2010, 2015, 2030)>>
Rising ==
    [n \in 1..12 |->
        IF n <= 3 THEN Input(n, 15, Shape(2030, 2032, 2034), RisingMtf[n], NoShape)
        ELSE Input(n, 0, Shape(2030, 2032, 2034), RisingMtf[n], RisingHtf[n - 3])]
\* the same stretch and one more iteration, a dip to the demand zone (2005)
RisingDip == Append(Rising, Input(13, 7, Shape(2005, 2008, 2010), NoShape, NoShape))
Falling == [n \in 1..12 |-> MirrorInput(Rising[n])]
FallingRally == [n \in 1..13 |-> MirrorInput(RisingDip[n])]

Feeds == {[market |-> "flat", replay |-> <<>>],
          [market |-> "rising", replay |-> Rising],
          [market |-> "rising", replay |-> RisingDip],
          [market |-> "falling", replay |-> Falling],
          [market |-> "falling", replay |-> FallingRally]}

\* Candles a rising market can print next.  LTF: a dip to the demand zone
\* (2005), a dip to 2010, a dip to the broken resistance (2025), a sell-off.
RisingLtf == {Shape(2005, 2008, 2010), Shape(2010, 2012, 2014),
              Shape(2025, 2027, 2029), Shape(1990, 1992, 1995)}
\* LTF between two MTF closes: a dip to the demand zone that closes 11 higher,
\* so that the candle reaches the stop-loss of a Long entered at its close, and
\* one with a high at 2024, above that Long's take-profit.
RisingWide == {Shape(2005, 2016, 2016), Shape(2005, 2008, 2024)}
\* MTF: a return to the broken resistance, or a gap down below 2010.
RisingMtfNext == {Shape(2025, 2028, 2030), Shape(2000, 2005, 2008)}
\* HTF: a close above the last swing high.
RisingHtfNext == {Shape(2045, 2055, 2060)}
Hours == {0, 13}
RisingInputs ==
    {Input(hh, 7, l, NoShape, NoShape) : hh \in Hours, l \in RisingLtf \cup RisingWide}
    \cup {Input(hh, 15, l, m, NoShape) : hh \in Hours, l \in RisingLtf, m \in RisingMtfNext}
    \cup UNION {{Input(hh, 0, l, m, h) : hh \in Hours, l \in RisingLtf, m \in RisingMtfNext} :
                h \in RisingHtfNext}
LiveInputs(market) ==
    IF market = "falling" THEN {MirrorInput(in) : in \in RisingInputs} ELSE RisingInputs

Replay ==
    /\ frame = NoFrame
    /\ feed.replay # <<>>
    /\ ScanCycle(Head(feed.replay))
    /\ feed' = [feed EXCEPT !.replay = Tail(@)]
    /\ live' = live

Live ==
    /\ frame = NoFrame
    /\ feed.replay = <<>>
    /\ live < MaxLive
    /\ \E in \in LiveInputs(feed.market) : ScanCycle(in)
    /\ feed' = feed
    /\ live' = live + 1

Init == Construction /\ feed \in Feeds
Next == Replay \/ Live
Spec == Init /\ [][Next]_vars

(* dt.datetime.now() is the local wall clock: it repeats or steps back when  *)
(* the clock is adjusted (a time correction, the end of daylight saving).   *)
(* SpecClock adds one such iteration to a run: the candles it fetches are    *)
(* stamped with the previous iteration's time or the one before.            *)

\* each candle of the buffer is later than the one before it
InOrder(buffer) == \A i \in 1..(Len(buffer) - 1) : buffer[i].ts < buffer[i + 1].ts

\* all three timeframes close, so each gets a candle with the stale stamp
SetBackInputs(market) == {in \in LiveInputs(market) : in.clock = [hour |-> 0, minute |-> 0]}

LiveSetBack ==
    /\ frame = NoFrame
    /\ feed.replay = <<>>
    /\ live < MaxLive
    /\ iteration >= 2
    /\ InOrder(ltf_data_buffer)
    /\ \E in \in SetBackInputs(feed.market), now \in {iteration - 1, iteration} :
          Scan(in, now)
    /\ feed' = feed
    /\ live' = live + 1

NextClock == Replay \/ Live \/ LiveSetBack
SpecClock == Init /\ [][NextClock]_vars

(* The detectors called on windows that are too short, before the loop's     *)
(* first iteration; the loop then runs as in Spec.                           *)

\* every sequence of fewer than 2w+1 candles (w the HTF window size), one per
\* instant
ShortWindows ==
    UNION {{[i \in 1..n |-> Candle(i, f[i][1], f[i][1], f[i][2])] :
               f \in [1..n -> SwingShapes(mtf_window_size_sr)]} :
           n \in 0..(2 * htf_window_size_sh_sl)}

CallShort ==
    /\ frame = NoFrame
    /\ iteration = 0
    /\ \E w \in {htf_window_size_sh_sl, mtf_window_size_sr} : \E df \in ShortWindows :
          frame' = [fn |-> "short window", df_window |-> df, window_size |-> w,
                    swing_high |-> find_swing_highs_live(df, w),
                    swing_low |-> find_swing_lows_live(df, w),
                    resistance |-> find_resistance_live(df, w),
                    support |-> find_support_live(df, w),
                    gap |-> find_fair_value_gaps_live(KeepLast(df, 3))]
    /\ UNCHANGED <<mainVars, retestVars>>

NextShort == CallShort \/ Return \/ Replay \/ Live
SpecShort == Init /\ [][NextShort]_vars

(* A steady market: eleven iterations that close all three timeframes on     *)
(* the same candles, so that every centre of an HTF window ties for the      *)
(* highest high and the lowest low and is confirmed as both; seven swings    *)
(* of each kind are confirmed, more than a history keeps.  SpecHistory runs  *)
(* the loop on this stretch and on the rising one.                           *)

Steady ==
    [n \in 1..11 |-> Input(n, 0, Shape(2030, 2032, 2034), Shape(2010, 2015, 2020),
                           Shape(2010, 2015, 2030))]

InitHistory ==
    /\ Construction
    /\ feed \in {[market |-> "rising", replay |-> Steady],
                 [market |-> "rising", replay |-> Rising]}

SpecHistory == InitHistory /\ [][Next]_vars

(* The loop with any notifier: credentials configured or not, and a Telegram *)
(* API that answers each iteration's messages with 200, an HTTP error       *)
(* status, a timeout or a refused connection.                                *)

Credentials == {NoneStr, "set"}

InitNotify ==
    /\ ModuleState
    /\ feed \in Feeds
    /\ \E raw_token \in Credentials, raw_chat_id \in Credentials, post \in Posts :
          notifier = Started(raw_token, raw_chat_id, post)

\* the live iterations between two MTF closes, in the first of the hours
QuietInputs(market) ==
    {in \in LiveInputs(market) :
        ~MtfCloses(in.clock) /\ ~HtfCloses(in.clock) /\ in.clock.hour = 0}

ReplayNotify ==
    /\ frame = NoFrame
    /\ feed.replay # <<>>
    /\ \E post \in Posts : ScanCycle([Head(feed.replay) EXCEPT !.post = post])
    /\ feed' = [feed EXCEPT !.replay = Tail(@)]
    /\ live' = live

LiveNotify ==
    /\ frame = NoFrame
    /\ feed.replay = <<>>
    /\ live < MaxLive
    /\ \E in \in QuietInputs(feed.market), post \in Posts :
          ScanCycle([in EXCEPT !.post = post])
    /\ feed' = feed
    /\ live' = live + 1

NextNotify == ReplayNotify \/ LiveNotify
SpecNotify == InitNotify /\ [][NextNotify]_vars

-----------------------------------------------------------------------------
(* Properties of the stateless functions (SpecPure) *)

ExitCall == frame.fn = "define_exit_conditions_live"
EntryCall == frame.fn = "define_entry_conditions_live"
NoExit == <<NoPrice, NoneStr>>

\* C2: define_exit_conditions_live returns, for a Long, (stopLoss, Loss) if
\* low <= stopLoss, otherwise (takeProfit, Win) if high >= takeProfit, otherwise
\* no exit; for a Short, (stopLoss, Loss) if high >= stopLoss, otherwise
\* (takeProfit, Win) if low <= takeProfit, otherwise no exit; a candle reaching
\* both levels gives Loss at stopLoss, and no open position gives no exit.
C2_ExitContract ==
    ExitCall =>
        LET t == frame.trade
            low == Money(frame.candle.Low)
            high == Money(frame.candle.High)
        IN  /\ t = None_ => frame.ret = NoExit
            /\ t # None_ /\ t.Type = "Long" =>
                 /\ low <= t.StopLoss => frame.ret = <<t.StopLoss, "Loss">>
                 /\ low > t.StopLoss /\ high >= t.TakeProfit
                      => frame.ret = <<t.TakeProfit, "Win">>
                 /\ low > t.StopLoss /\ high < t.TakeProfit => frame.ret = NoExit
            /\ t # None_ /\ t.Type = "Short" =>
                 /\ high >= t.StopLoss => frame.ret = <<t.StopLoss, "Loss">>
                 /\ high < t.StopLoss /\ low <= t.TakeProfit
                      => frame.ret = <<t.TakeProfit, "Win">>
                 /\ high < t.StopLoss /\ low > t.TakeProfit => frame.ret = NoExit

\* the spec's example: Long, stopLoss 95, takeProfit 110, candle low 94, high 112
C2_Witness ==
    /\ ExitCall
    /\ frame.trade # None_
    /\ frame.trade.Type = "Long"
    /\ frame.trade.StopLoss = Money(95)
    /\ frame.trade.TakeProfit = Money(110)
    /\ frame.candle.Low = 94
    /\ frame.candle.High = 112
    /\ frame.ret = <<Money(95), "Loss">>

\* The retest conditions of section 4.7, for a level given as a number
RetestBelow(low, level) ==
    low <= level /\ low * TolDen >= level * (TolDen - TolNum)
RetestAbove(high, level) ==
    high >= level /\ high * TolDen <= level * (TolDen + TolNum)

\* a zone level or a (level, label) tuple whose retest condition holds
Retest(side, price, level) ==
    IF side = "Long" THEN RetestBelow(price, level) ELSE RetestAbove(price, level)
ZoneHolds(side, price, zone) ==
    zone.k = "float" /\ Retest(side, price, zone.n)
InfoHolds(side, price, info) ==
    info # None_ /\ info[1].k = "float" /\ Retest(side, price, info[1].n)
\* an argument of the documented shape: None or (level, label)
IsDocumented(info) == info = None_ \/ info[1].k = "float"

\* C3: under a Bullish regime the long checks run in the order demand zone,
\* bullish FVG, RTS and the first match wins: the reason is '4h Demand Retest'
\* whenever the demand retest holds, 'MTF FVG Retest' whenever it fails and the
\* FVG retest holds, and 'MTF RTS Level Retest' whenever both fail and the RTS
\* retest holds.  Bearish mirrors this with supply zone, bearish FVG, STR.
C3_EntryPriority ==
    EntryCall =>
        LET low == frame.candle.Low
            high == frame.candle.High
            d == ZoneHolds("Long", low, frame.demand)
            f == InfoHolds("Long", low, frame.bullish_fvg)
            r == InfoHolds("Long", low, frame.rts)
            sz == ZoneHolds("Short", high, frame.supply)
            sf == InfoHolds("Short", high, frame.bearish_fvg)
            sr == InfoHolds("Short", high, frame.str)
            Long(reason) == /\ frame.ret.exc = "none"
                            /\ frame.ret.long_signal = <<"Long Entry", reason>>
            Short(reason) == /\ frame.ret.exc = "none"
                             /\ frame.ret.short_signal = <<"Short Entry", reason>>
        IN  /\ frame.structure = "Bullish" =>
                 /\ d => Long("4h Demand Retest")
                 /\ ~d /\ f => Long("MTF FVG Retest")
                 /\ ~d /\ ~f /\ r /\ IsDocumented(frame.bullish_fvg)
                      => Long("MTF RTS Level Retest")
            /\ frame.structure = "Bearish" =>
                 /\ sz => Short("4h Supply Retest")
                 /\ ~sz /\ sf => Short("MTF FVG Retest")
                 /\ ~sz /\ ~sf /\ sr /\ IsDocumented(frame.bearish_fvg)
                      => Short("MTF STR Level Retest")

\* demand zone, FVG and RTS retests all hold at once; the zone gives the reason
C3_Witness ==
    /\ EntryCall
    /\ frame.structure = "Bullish"
    /\ ZoneHolds("Long", frame.candle.Low, frame.demand)
    /\ InfoHolds("Long", frame.candle.Low, frame.bullish_fvg)
    /\ InfoHolds("Long", frame.candle.Low, frame.rts)
    /\ frame.ret.long_signal = <<"Long Entry", "4h Demand Retest">>

\* C4: define_entry_conditions_live returns (None, None) when the regime is
\* Ranging, a long signal only when it is Bullish and a short signal only when
\* it is Bearish; the two signals are never both present.
C4_RegimeExclusive ==
    EntryCall =>
        /\ frame.structure = "Ranging" =>
              /\ frame.ret.exc = "none"
              /\ frame.ret.long_signal = None_
              /\ frame.ret.short_signal = None_
        /\ frame.ret.long_signal # None_ => frame.structure = "Bullish"
        /\ frame.ret.short_signal # None_ => frame.structure = "Bearish"
        /\ ~(frame.ret.long_signal # None_ /\ frame.ret.short_signal # None_)

\* a Ranging call in which a long and a short retest condition both hold
C4_Witness ==
    /\ EntryCall
    /\ frame.structure = "Ranging"
    /\ ZoneHolds("Long", frame.candle.Low, frame.demand)
    /\ ZoneHolds("Short", frame.candle.High, frame.supply)
    /\ frame.ret.long_signal = None_
    /\ frame.ret.short_signal = None_

-----------------------------------------------------------------------------
(* Properties of the scan loop (Spec) *)

\* the entry and exit notices handed to the notifier, in order
TradeEvents(box) == SelectSeq(box, LAMBDA e : e.event \in {"entry", "exit"})
CurrentCandle == LastOf(ltf_data_buffer)

\* entries and exits alternate, starting with an entry
Alternate(events) ==
    \A i \in 1..Len(events) : events[i].event = IF i % 2 = 1 THEN "entry" ELSE "exit"

\* a position is open iff the last event is an entry, and it is that entry's
OpenIsLastEntry(events) ==
    IF open_trade = None_ THEN Len(events) % 2 = 0
    ELSE /\ Len(events) % 2 = 1
         /\ EntryNotice(open_trade) = LastOf(events)

\* an iteration opens a position only if it starts with none
OpensOnlyWhenFlat ==
    (trade_counter' # trade_counter
        \/ Len(SelectSeq(outbox', LAMBDA e : e.event = "entry"))
           # Len(SelectSeq(outbox, LAMBDA e : e.event = "entry")))
    => /\ open_trade = None_
       /\ trade_counter' = trade_counter + 1

\* an open position stays as it is, or is closed by the exit evaluator
HeldUntilExit ==
    open_trade # None_ =>
        \/ /\ open_trade' = open_trade
           /\ outbox' = outbox
        \/ /\ open_trade' = None_
           /\ exit_price' # NoPrice
           /\ exit_price' \in {open_trade.StopLoss, open_trade.TakeProfit}
           /\ outbox' = Append(outbox, ExitNotice(open_trade, exit_price', trade_result'))

\* C1: across any sequence of iterations, a position is opened only in an
\* iteration whose entry check finds none open; an open position is not replaced
\* or modified by later signals until the exit evaluator closes it; entry and
\* exit events alternate, starting with an entry; the one position slot is
\* occupied exactly between an entry and the next exit.
C1_OnePosition ==
    /\ [](Alternate(TradeEvents(outbox)) /\ OpenIsLastEntry(TradeEvents(outbox)))
    /\ [][OpensOnlyWhenFlat /\ HeldUntilExit]_vars

\* a position opened in an earlier iteration is still open, unchanged, after an
\* iteration whose entry check produced a signal
C1_Witness ==
    /\ open_trade # None_
    /\ open_trade.EntryTime < iteration
    /\ (long_signal # None_ \/ short_signal # None_)
    /\ EntryNotice(open_trade) = LastOf(TradeEvents(outbox))

\* a position was opened, closed, and another one opened
C1_Reopened ==
    /\ open_trade # None_
    /\ Len(TradeEvents(outbox)) = 3

\* the cached FVG is the detector's result: (kind, level)
Reported(fvg, kind) == fvg # None_ /\ fvg[1] = Str(kind) /\ fvg[2].k = "float"

\* the case of C5 on the long side: Bullish regime, a reported bullish FVG
\* cached, the demand retest fails, the LTF low is within the band of the level
FvgRetestLong ==
    /\ ltf_data_buffer # <<>>
    /\ current_htf_market_structure = "Bullish"
    /\ Reported(current_mtf_bullish_fvg, "BullishFVG")
    /\ ~ZoneHolds("Long", CurrentCandle.Low, current_htf_demand_zone)
    /\ RetestBelow(CurrentCandle.Low, current_mtf_bullish_fvg[2].n)

\* the mirrored case on the short side
FvgRetestShort ==
    /\ ltf_data_buffer # <<>>
    /\ current_htf_market_structure = "Bearish"
    /\ Reported(current_mtf_bearish_fvg, "BearishFVG")
    /\ ~ZoneHolds("Short", CurrentCandle.High, current_htf_supply_zone)
    /\ RetestAbove(CurrentCandle.High, current_mtf_bearish_fvg[2].n)

\* C5: in the scan loop, when the detector's bullish FVG with level L is the
\* cached one, the regime is Bullish, the demand retest does not match and the
\* LTF low lies in [L*(1-tol), L], the entry evaluator returns
\* (Long, 'MTF FVG Retest'); mirrored for a bearish FVG, the LTF high and Short.
C5_FvgRetestEnters ==
    /\ FvgRetestLong =>
          /\ pc = "running"
          /\ long_signal = <<"Long Entry", "MTF FVG Retest">>
    /\ FvgRetestShort =>
          /\ pc = "running"
          /\ short_signal = <<"Short Entry", "MTF FVG Retest">>

-----------------------------------------------------------------------------
(* Properties of identify_str_rts_live (SpecRetest) *)

RetestCall == frame.fn = "identify_str_rts_live"
Range(seq) == {seq[i] : i \in 1..Len(seq)}
Count(e, seq) == Cardinality({i \in 1..Len(seq) : seq[i] = e})

\* the confirmation condition of section 4.6 for a pending entry (level, breachTs)
ConfirmsRts(e, c) ==
    c.ts > e[2] /\ Abs(c.Low - e[1]) * TolDen <= TolNum * e[1] /\ c.Close > e[1]
ConfirmsStr(e, c) ==
    c.ts > e[2] /\ Abs(c.High - e[1]) * TolDen <= TolNum * e[1] /\ c.Close < e[1]

Confirms(side, e, c) ==
    IF side = "RTS" THEN ConfirmsRts(e, c) ELSE ConfirmsStr(e, c)

\* an entry is removed iff it confirms, and a signal is returned iff one confirms
RemovedIffConfirmed(side, before, after, signal) ==
    /\ \A e \in Range(before) \cup Range(after) :
          IF Confirms(side, e, frame.candle)
          THEN Count(e, after) = 0
          ELSE Count(e, after) >= Count(e, before)
    /\ signal # None_ <=> \E e \in Range(before) : Confirms(side, e, frame.candle)
    /\ \A e \in Range(after) : Count(e, after) > Count(e, before)
          => e[2] = frame.candle.ts

\* C6: in every call, a pending entry (level, breachTimestamp) is removed and
\* a signal is returned iff currentTimestamp > breachTimestamp, the candle low
\* (high for STR) is within tolerance of level and the close is above (below)
\* level; an entry added by a breach in the same call is not confirmed in it.
C6_ConfirmedIffRetest ==
    RetestCall =>
        /\ RemovedIffConfirmed("RTS", frame.rts_before, potential_rts_levels,
                               current_mtf_rts_signal)
        /\ RemovedIffConfirmed("STR", frame.str_before, potential_str_levels,
                               current_mtf_str_signal)

\* a breach adds an entry whose level the candle retests and closes above; it
\* stays pending because its breach timestamp is the candle's
C6_Witness ==
    /\ RetestCall
    /\ \E e \in Range(potential_rts_levels) :
          /\ Count(e, potential_rts_levels) > Count(e, frame.rts_before)
          /\ Abs(frame.candle.Low - e[1]) * TolDen <= TolNum * e[1]
          /\ frame.candle.Close > e[1]
    /\ \E e \in Range(frame.rts_before) : ConfirmsRts(e, frame.candle)
    /\ current_mtf_rts_signal # None_

\* what the call appended: the part of the list after the entries it kept
Appended(side, before, after) ==
    LET Stays(e) == ~Confirms(side, e, frame.candle)
        kept == Len(SelectSeq(before, Stays))
    IN  IF Len(after) >= kept THEN SubSeq(after, kept + 1, Len(after)) ELSE <<>>

BreachAddsOnce(side, last_confirmed, broken, before, after) ==
    Appended(side, before, after) =
        IF last_confirmed # None_ /\ broken /\ frame.candle.ts > last_confirmed[1]
           /\ ~InSeq(<<last_confirmed[2], frame.candle.ts>>, before)
        THEN << <<last_confirmed[2], frame.candle.ts>> >>
        ELSE <<>>

\* C7: when the close is above the last confirmed resistance price and the
\* candle is later than the resistance, (resistanceLevel, currentTimestamp) is
\* added to PotentialRTS if it is not already present; nothing is added if it is
\* present or the breach condition fails.  Symmetric for support and PotentialSTR.
C7_BreachEnqueuesOnce ==
    RetestCall =>
        /\ BreachAddsOnce("RTS", frame.last_confirmed_res,
                          frame.last_confirmed_res # None_
                            /\ frame.candle.Close > frame.last_confirmed_res[2],
                          frame.rts_before, potential_rts_levels)
        /\ BreachAddsOnce("STR", frame.last_confirmed_sup,
                          frame.last_confirmed_sup # None_
                            /\ frame.candle.Close < frame.last_confirmed_sup[2],
                          frame.str_before, potential_str_levels)

NoDuplicates(seq) == \A i, j \in 1..Len(seq) : seq[i] = seq[j] => i = j

\* C8: after any sequence of calls no (price, breachTimestamp) pair occurs more
\* than once in PotentialRTS, and none more than once in PotentialSTR.
C8_PendingPairsUnique ==
    NoDuplicates(potential_rts_levels) /\ NoDuplicates(potential_str_levels)

\* the entries of before that do not confirm, in order, open the list after
KeptInPlace(side, before, after) ==
    LET Stays(e) == ~Confirms(side, e, frame.candle)
        kept == SelectSeq(before, Stays)
    IN  /\ Len(after) >= Len(kept)
        /\ SubSeq(after, 1, Len(kept)) = kept

\* C9: a pending entry that does not meet the confirmation condition in a call
\* is still in its list, unchanged and in place, after the call.
C9_UnconfirmedPersist ==
    RetestCall =>
        /\ KeptInPlace("RTS", frame.rts_before, potential_rts_levels)
        /\ KeptInPlace("STR", frame.str_before, potential_str_levels)

\* an entry stays through a call whose candle is later than its breach and
\* whose last confirmed resistance is another level, while another is confirmed
C9_Witness ==
    /\ RetestCall
    /\ \E e \in Range(frame.rts_before) :
          /\ ~ConfirmsRts(e, frame.candle)
          /\ frame.candle.ts > e[2]
          /\ frame.last_confirmed_res # None_
          /\ frame.last_confirmed_res[2] # e[1]
          /\ InSeq(e, potential_rts_levels)
    /\ \E e \in Range(frame.rts_before) : ConfirmsRts(e, frame.candle)

\* every confirming entry is gone and the signal carries the last one's level
AllRemovedLastSignalled(side, before, after, signal) ==
    LET Hit(e) == Confirms(side, e, frame.candle)
        confirmed == SelectSeq(before, Hit)
    IN  confirmed # <<>> =>
          /\ \A e \in Range(confirmed) : ~InSeq(e, after)
          /\ signal = <<Float(confirmed[Len(confirmed)][1]), Str(side)>>

\* C10: when several entries confirm in one call, every one of them is removed
\* and the call returns a single signal, carrying the level of the last
\* confirming entry in list order; likewise for PotentialSTR.
C10_AllRemovedOneSignal ==
    RetestCall =>
        /\ AllRemovedLastSignalled("RTS", frame.rts_before, potential_rts_levels,
                                   current_mtf_rts_signal)
        /\ AllRemovedLastSignalled("STR", frame.str_before, potential_str_levels,
                                   current_mtf_str_signal)

\* two entries of different levels confirm in one call
C10_Witness ==
    /\ RetestCall
    /\ \E e1, e2 \in Range(frame.rts_before) :
          /\ e1[1] # e2[1]
          /\ ConfirmsRts(e1, frame.candle)
          /\ ConfirmsRts(e2, frame.candle)
    /\ potential_rts_levels = <<>>
    /\ current_mtf_rts_signal # None_

\* one call returns an RTS and an STR signal
C10_BothSignals ==
    RetestCall /\ current_mtf_rts_signal # None_ /\ current_mtf_str_signal # None_

-----------------------------------------------------------------------------
(* Properties of repeated calls of identify_str_rts_live (SpecAgain) *)

AgainCall == frame # NoFrame /\ frame.fn = "identify_str_rts_live again"

\* the breach of a level by the call's candle: lines 224 and 230 without the
\* membership test
Breached(side, last_confirmed, candle) ==
    /\ last_confirmed # None_
    /\ candle.ts > last_confirmed[1]
    /\ IF side = "RTS" THEN candle.Close > last_confirmed[2]
       ELSE candle.Close < last_confirmed[2]

\* a breach whose pair was confirmed and removed before leaves the pair pending
ReAdded(side, last_confirmed, removed_before, after) ==
    (/\ Breached(side, last_confirmed, frame.candle)
     /\ <<last_confirmed[2], frame.candle.ts>> \in removed_before)
    => InSeq(<<last_confirmed[2], frame.candle.ts>>, after)

C11_ConfirmedAgain ==
    /\ AgainCall
    /\ \E e \in frame.rts_removed_before :
          /\ InSeq(e, frame.rts_before)
          /\ ~InSeq(e, potential_rts_levels)
          /\ current_mtf_rts_signal = <<Float(e[1]), Str("RTS")>>

-----------------------------------------------------------------------------
(* Properties of the scan loop when the clock is set back (SpecClock) *)

\* the step appends to the buffer a candle that is not later than its last one
AppendsStale(before, after) ==
    /\ before # <<>>
    /\ after # before
    /\ LastOf(after).ts <= LastOf(before).ts

\* C12: a candle delivered for a timeframe with a timestamp not later than
\* that timeframe's previously processed candle is rejected or ignored: no
\* iteration appends such a candle to the LTF, MTF or HTF buffer.
C12_StaleCandleIgnored ==
    [][/\ ~AppendsStale(ltf_data_buffer, ltf_data_buffer')
       /\ ~AppendsStale(mtf_data_buffer, mtf_data_buffer')
       /\ ~AppendsStale(htf_data_buffer, htf_data_buffer')]_vars

\* a stale HTF candle was appended and confirmed a swing
C12_StaleChangedStructure ==
    /\ ~InOrder(htf_data_buffer)
    /\ last_confirmed_sh # None_
    /\ last_confirmed_sh[1] >= LastOf(htf_data_buffer).ts

-----------------------------------------------------------------------------
(* Properties of the detectors (SpecDetect) *)

SwingCall == frame.fn = "find_swing"
Centre == frame.df_window[frame.window_size + 1]

\* C13: on every window of 2w+1 candles find_swing_highs_live returns
\* (timestamp, high) of the centre candle iff the centre's high equals the
\* maximum high of the window, ties included, and nothing otherwise;
\* find_swing_lows_live likewise with lows and the minimum; find_resistance_live
\* and find_support_live return the same results as the swing functions.
C13_SwingIffExtreme ==
    SwingCall =>
        /\ frame.swing_high =
              IF \A i \in 1..Len(frame.df_window) : frame.df_window[i].High <= Centre.High
              THEN <<Centre.ts, Centre.High>> ELSE None_
        /\ frame.swing_low =
              IF \A i \in 1..Len(frame.df_window) : frame.df_window[i].Low >= Centre.Low
              THEN <<Centre.ts, Centre.Low>> ELSE None_
        /\ frame.resistance = frame.swing_high
        /\ frame.support = frame.swing_low

\* a tie: another candle of an MTF window has the centre's high, which is the
\* maximum, and the centre is returned as swing high and as resistance
C13_Witness ==
    /\ SwingCall
    /\ frame.window_size = mtf_window_size_sr
    /\ \E i \in 1..Len(frame.df_window) :
          i # frame.window_size + 1 /\ frame.df_window[i].High = Centre.High
    /\ frame.swing_high = <<Centre.ts, Centre.High>>
    /\ frame.resistance = <<Centre.ts, Centre.High>>
    /\ frame.swing_low = None_

-----------------------------------------------------------------------------
(* Properties of the classifiers (SpecClassify) *)

StructureCall == frame.fn = "determine_market_structure_live"
Enough == Len(frame.sh_history) >= 2 /\ Len(frame.sl_history) >= 2
\* the last (k = 0) and the one before last (k = 1) entry of a history
Recent(history, k) == history[Len(history) - k]

\* the Bullish condition: higher high, higher low, the low later than the high
BullishLeg ==
    /\ Enough
    /\ Recent(frame.sh_history, 0)[2] > Recent(frame.sh_history, 1)[2]
    /\ Recent(frame.sl_history, 0)[2] > Recent(frame.sl_history, 1)[2]
    /\ Recent(frame.sl_history, 0)[1] > Recent(frame.sh_history, 0)[1]

\* the Bearish condition: lower low, lower high, the high later than the low
BearishLeg ==
    /\ Enough
    /\ Recent(frame.sl_history, 0)[2] < Recent(frame.sl_history, 1)[2]
    /\ Recent(frame.sh_history, 0)[2] < Recent(frame.sh_history, 1)[2]
    /\ Recent(frame.sh_history, 0)[1] > Recent(frame.sl_history, 0)[1]

\* C14: determine_market_structure_live returns Bullish iff both histories
\* have two entries at least and sh2.price > sh1.price, sl2.price > sl1.price,
\* sl2.timestamp > sh2.timestamp; Bearish iff both have two entries at least
\* and sl2.price < sl1.price, sh2.price < sh1.price, sh2.timestamp >
\* sl2.timestamp; Ranging in every other case; the two conditions never hold
\* together; only the last two entries of each history affect the result.
C14_RegimeFromLastTwo ==
    StructureCall =>
        /\ (frame.ret = "Bullish") <=> BullishLeg
        /\ (frame.ret = "Bearish") <=> BearishLeg
        /\ (frame.ret = "Ranging") <=> (~BullishLeg /\ ~BearishLeg)
        /\ ~(BullishLeg /\ BearishLeg)
        /\ frame.ret = determine_market_structure_live(Candle(3, 1, 1, 1),
                           KeepLast(frame.sh_history, 2), KeepLast(frame.sl_history, 2))

\* Bullish although the oldest of three swing highs is as high as the last
C14_Witness ==
    /\ StructureCall
    /\ Len(frame.sh_history) = 3
    /\ frame.sh_history[1][2] >= frame.sh_history[3][2]
    /\ frame.ret = "Bullish"

BosCall == frame.fn = "identify_bos_live"

\* C15: identify_bos_live returns 'Bullish BOS' iff the regime is Bullish, a
\* last swing high exists, the candle is later than it and closes above its
\* price; 'Bearish BOS' iff the regime is Bearish, a last swing low exists,
\* the candle is later than it and closes below its price; nothing when the
\* regime is Ranging or the relevant swing is undefined.
C15_BreakOfStructure ==
    BosCall =>
        /\ (frame.ret = "Bullish BOS") <=>
              /\ frame.structure = "Bullish"
              /\ frame.sh # None_
              /\ frame.candle.ts > frame.sh[1]
              /\ frame.candle.Close > frame.sh[2]
        /\ (frame.ret = "Bearish BOS") <=>
              /\ frame.structure = "Bearish"
              /\ frame.sl # None_
              /\ frame.candle.ts > frame.sl[1]
              /\ frame.candle.Close < frame.sl[2]
        /\ frame.ret \in {"Bullish BOS", "Bearish BOS", NoneStr}
        /\ frame.structure = "Ranging" => frame.ret = NoneStr
        /\ (frame.structure = "Bullish" /\ frame.sh = None_) => frame.ret = NoneStr
        /\ (frame.structure = "Bearish" /\ frame.sl = None_) => frame.ret = NoneStr

\* a later candle closing at the swing high's price under a Bullish regime:
\* no break
C15_Witness ==
    /\ BosCall
    /\ frame.structure = "Bullish"
    /\ frame.sh # None_
    /\ frame.candle.ts > frame.sh[1]
    /\ frame.candle.Close = frame.sh[2]
    /\ frame.ret = NoneStr

\* a later candle closing below the swing low under a Bearish regime
C15_BearishBreak ==
    /\ BosCall
    /\ frame.structure = "Bearish"
    /\ frame.sh = None_
    /\ frame.ret = "Bearish BOS"

GapCall == frame.fn = "find_fair_value_gaps_live"

\* C16: for every triple of consecutive candles (c1, c2, c3),
\* find_fair_value_gaps_live returns ('BullishFVG', c1.low) iff c1.low >
\* c3.high and c3.high < c2.low, ('BearishFVG', c1.high) iff c1.high < c3.low
\* and c3.low > c2.high, and nothing otherwise.
C16_GapIffConditions ==
    GapCall =>
        LET c1 == frame.df[1]
            c2 == frame.df[2]
            c3 == frame.df[3]
            bullish == c1.Low > c3.High /\ c3.High < c2.Low
            bearish == c1.High < c3.Low /\ c3.Low > c2.High
        IN  /\ (frame.ret = <<Str("BullishFVG"), Float(c1.Low)>>) <=> bullish
            /\ (frame.ret = <<Str("BearishFVG"), Float(c1.High)>>) <=> bearish
            /\ (frame.ret = None_) <=> (~bullish /\ ~bearish)

\* a bullish gap in which the three candles' lows and highs all differ
C16_Witness ==
    /\ GapCall
    /\ frame.ret = <<Str("BullishFVG"), Float(frame.df[1].Low)>>
    /\ frame.df[3].High < frame.df[2].Low
    /\ frame.df[2].Low < frame.df[1].Low
    /\ frame.df[3].Low < frame.df[3].High

\* C17: for every triple of candles the bullish and the bearish condition of
\* find_fair_value_gaps_live are never both true, so the result is the same
\* when the bearish condition is tested first.
C17_GapsExclusive ==
    GapCall =>
        LET bullish == BullishGap(frame.df[1], frame.df[2], frame.df[3])
            bearish == BearishGap(frame.df[1], frame.df[2], frame.df[3])
        IN  /\ ~(bullish /\ bearish)
            /\ frame.ret = IF bearish THEN <<Str("BearishFVG"), Float(frame.df[1].High)>>
                           ELSE IF bullish
                           THEN <<Str("BullishFVG"), Float(frame.df[1].Low)>>
                           ELSE None_

\* a triple on which the condition tested second, the bearish one, holds
C17_Witness ==
    /\ GapCall
    /\ BearishGap(frame.df[1], frame.df[2], frame.df[3])
    /\ frame.ret = <<Str("BearishFVG"), Float(frame.df[1].High)>>

-----------------------------------------------------------------------------
(* Properties of the scan loop (Spec): what an iteration touches, and in     *)
(* which order                                                              *)

\* no HTF candle closes in the step: nothing the HTF block assigns changes
HtfFrame ==
    htf_data_buffer' = htf_data_buffer =>
        UNCHANGED <<confirmed_sh_history, confirmed_sl_history, last_confirmed_sh,
                    last_confirmed_sl, current_htf_market_structure, current_htf_bos,
                    current_htf_supply_zone, current_htf_demand_zone>>

\* no MTF candle closes in the step: nothing the MTF block assigns changes
MtfFrame ==
    mtf_data_buffer' = mtf_data_buffer =>
        UNCHANGED <<last_confirmed_res_mtf, last_confirmed_sup_mtf,
                    current_mtf_bullish_fvg, current_mtf_bearish_fvg,
                    current_mtf_rts_signal, current_mtf_str_signal,
                    potential_rts_levels, potential_str_levels>>

\* the entry evaluator's result on the iteration's LTF candle and the values
\* cached at the end of the step
EntryOnCached ==
    define_entry_conditions_live(LastOf(ltf_data_buffer'),
        current_htf_market_structure', current_htf_supply_zone',
        current_htf_demand_zone', current_mtf_bullish_fvg', current_mtf_bearish_fvg',
        current_mtf_rts_signal', current_mtf_str_signal', TolNum)

\* the evaluators' results are the ones left by the step
Evaluated ==
    /\ long_signal' = EntryOnCached.long_signal
    /\ short_signal' = EntryOnCached.short_signal
    /\ open_trade # None_ =>
          <<exit_price', trade_result'>> =
              define_exit_conditions_live(LastOf(ltf_data_buffer'), open_trade)

\* every iteration (a step that takes an LTF candle) runs the entry evaluator
\* on the cached values, and the exit evaluator on the open position
EvaluatorsRun == ltf_data_buffer' # ltf_data_buffer => Evaluated

\* C18: in an iteration in which no HTF candle closes, the HTF buffer, swing
\* histories, last confirmed swings, regime, BOS and zones are unchanged; in
\* one in which no MTF candle closes, the MTF buffer, last confirmed
\* resistance/support, cached FVGs, cached RTS/STR signals and both pending
\* lists are unchanged; the entry and exit evaluators run in every iteration
\* on the cached values.
C18_FrameOfCycle == [][HtfFrame /\ MtfFrame /\ EvaluatorsRun]_vars

\* the same for the iterations that reach their end
C18_FrameOfCompletedCycle ==
    [][HtfFrame /\ MtfFrame /\ (iteration' = iteration + 1 => Evaluated)]_vars

\* the iteration ended in the entry evaluator: the candle reached the open
\* position's stop-loss and the position is still open
C18_ExitNotEvaluated ==
    /\ pc = "TypeError"
    /\ open_trade # None_
    /\ open_trade.Type = "Long"
    /\ Money(LastOf(ltf_data_buffer).Low) <= open_trade.StopLoss

\* an iteration in which only the LTF candle closed entered on the RTS signal
\* cached by an earlier one
C18_Witness ==
    /\ mtf_data_buffer # <<>>
    /\ LastOf(ltf_data_buffer).ts > LastOf(mtf_data_buffer).ts
    /\ current_mtf_rts_signal # None_
    /\ long_signal = <<"Long Entry", "MTF RTS Level Retest">>
    /\ open_trade # None_
    /\ open_trade.EntryTime = LastOf(ltf_data_buffer).ts

\* the position after the entry step of the iteration: a new one only if none
\* is open and the evaluator, run after the blocks, gave a signal
Entered ==
    IF open_trade # None_ THEN open_trade
    ELSE IF EntryOnCached.long_signal # None_
    THEN NewTrade("Long", LastOf(ltf_data_buffer'))
    ELSE IF EntryOnCached.short_signal # None_
    THEN NewTrade("Short", LastOf(ltf_data_buffer'))
    ELSE None_

\* the exit evaluator's result for that position on the iteration's candle
ExitOfEntered == define_exit_conditions_live(LastOf(ltf_data_buffer'), Entered)

\* detectors, then entry evaluation, then position creation, then exit
\* evaluation: what an iteration leaves is what these steps give in this order
InOrderOfSteps ==
    /\ (pc' = "TypeError") <=> (EntryOnCached.exc = "TypeError")
    /\ iteration' = iteration + 1 =>
          /\ long_signal' = EntryOnCached.long_signal
          /\ short_signal' = EntryOnCached.short_signal
          /\ trade_counter' = IF open_trade = None_ /\ Entered # None_
                              THEN trade_counter + 1 ELSE trade_counter
          /\ open_trade' = IF Entered # None_ /\ ExitOfEntered[1] # NoPrice
                           THEN None_ ELSE Entered

\* a position closed in the iteration is not replaced in the same iteration
ClosedNotReplaced ==
    (open_trade # None_ /\ define_exit_conditions_live(LastOf(ltf_data_buffer'),
                                                       open_trade)[1] # NoPrice
        /\ iteration' = iteration + 1)
    => /\ open_trade' = None_
       /\ trade_counter' = trade_counter

\* C19: within every iteration the steps occur in the order buffer append and
\* detectors (for the timeframes that closed), entry evaluation, position
\* creation, exit evaluation; so the entry evaluation sees the structural
\* outputs updated in the same iteration, and a position closed in an
\* iteration is not replaced by a new one in the same iteration.
C19_OrderOfSteps ==
    [][ltf_data_buffer' # ltf_data_buffer => (InOrderOfSteps /\ ClosedNotReplaced)]_vars

\* the first position was closed in the iteration that has just ended, which
\* also gave a long signal, and no second position was opened
C19_Witness ==
    /\ open_trade = None_
    /\ long_signal # None_
    /\ trade_counter = 1
    /\ Len(TradeEvents(outbox)) = 2
    /\ pc = "running"

\* the RTS signal produced by the MTF block of the first live iteration gave
\* the entry of that same iteration
C19_SameCycleSignal ==
    /\ feed.replay = <<>>
    /\ live = 1
    /\ Len(mtf_data_buffer) > 0
    /\ Len(ltf_data_buffer) > 0
    /\ LastOf(mtf_data_buffer).ts = LastOf(ltf_data_buffer).ts
    /\ current_mtf_rts_signal # None_
    /\ long_signal = <<"Long Entry", "MTF RTS Level Retest">>
    /\ open_trade # None_
    /\ open_trade.EntryTime = LastOf(ltf_data_buffer).ts

\* a position was opened and closed by the candle of one iteration: the exit
\* evaluator ran on the position the entry step had just created
C19_OpenedAndClosed ==
    /\ open_trade = None_
    /\ trade_counter = 1
    /\ Len(TradeEvents(outbox)) = 2
    /\ Len(ltf_data_buffer) > 0
    /\ TradeEvents(outbox)[1].EntryPrice = Money(LastOf(ltf_data_buffer).Close)
    /\ TradeEvents(outbox)[2].Result = "Loss"
    /\ long_signal # None_
    /\ pc = "running"

\* ---- Properties of the scan loop (Spec): the cached HTF outputs ----

\* the zone cached for a swing: its price, undefined iff no swing of that kind
\* has been confirmed; the last confirmed swing is the newest of its history
ZoneOfSwing(zone, last_confirmed, history) ==
    /\ (last_confirmed = None_) <=> (history = <<>>)
    /\ history # <<>> => last_confirmed = LastOf(history)
    /\ (zone = NaN) <=> (last_confirmed = None_)
    /\ last_confirmed # None_ => zone = Float(last_confirmed[2])

\* C20: after every iteration the supply zone is the price of the most recent
\* confirmed HTF swing high and undefined iff none has been confirmed, the
\* demand zone likewise for the swing low, and the cached regime is
\* determine_market_structure_live of the current swing histories.
C20_HtfOutputsDerived ==
    /\ ZoneOfSwing(current_htf_supply_zone, last_confirmed_sh, confirmed_sh_history)
    /\ ZoneOfSwing(current_htf_demand_zone, last_confirmed_sl, confirmed_sl_history)
    /\ current_htf_market_structure =
           determine_market_structure_live(None_, confirmed_sh_history,
                                           confirmed_sl_history)

\* two swing highs and two swing lows are confirmed, the zones are the prices
\* of the newest ones, which differ, and the regime is no longer the initial one
C20_Witness ==
    /\ Len(confirmed_sh_history) >= 2
    /\ Len(confirmed_sl_history) >= 2
    /\ current_htf_supply_zone = Float(LastOf(confirmed_sh_history)[2])
    /\ current_htf_demand_zone = Float(LastOf(confirmed_sl_history)[2])
    /\ current_htf_supply_zone # current_htf_demand_zone
    /\ current_htf_market_structure # "Ranging"

\* a swing high is confirmed and no swing low: one zone defined, one not
C20_OneZone ==
    /\ current_htf_supply_zone # NaN
    /\ current_htf_demand_zone = NaN

\* ---- Properties of the scan loop (Spec): the cached fair value gaps ----

\* the entry evaluator is handed at most one gap
OneFvgCurrent == current_mtf_bullish_fvg = None_ \/ current_mtf_bearish_fvg = None_

\* an MTF update on which the detector reported a gap of the given kind
GapDetected(kind) ==
    /\ mtf_data_buffer' # mtf_data_buffer
    /\ Len(mtf_data_buffer') >= 3
    /\ fvg_result' # None_
    /\ fvg_result'[1] = Str(kind)

\* a detection replaces what was stored, whatever its kind
Superseded ==
    /\ GapDetected("BullishFVG") => /\ current_mtf_bullish_fvg' = fvg_result'
                                  /\ current_mtf_bearish_fvg' = None_
    /\ GapDetected("BearishFVG") => /\ current_mtf_bearish_fvg' = fvg_result'
                                  /\ current_mtf_bullish_fvg' = None_

\* C21: at most one FVG is current at any time; a gap the detector reports on
\* an MTF update replaces the stored one whatever its kind, so that after a
\* bearish detection no earlier bullish FVG is handed to the entry evaluator,
\* and vice versa.
C21_OneFvgCurrent == []OneFvgCurrent /\ [][Superseded]_vars

\* a bearish detection has left the bullish gap of an earlier MTF candle in
\* place: both are current
C21_BothCurrent ==
    /\ current_mtf_bullish_fvg # None_
    /\ current_mtf_bearish_fvg # None_
    /\ fvg_result = current_mtf_bearish_fvg
    /\ pc = "running"

\* ---- Properties of SpecShort: too little data ----

ShortCall == frame.fn = "short window"

\* a detector given too few candles returns nothing
ShortGivesNothing ==
    ShortCall =>
        /\ Len(frame.df_window) < 2 * frame.window_size + 1
        /\ frame.swing_high = None_
        /\ frame.swing_low = None_
        /\ frame.resistance = None_
        /\ frame.support = None_
        /\ Len(frame.df_window) < 3 => frame.gap = None_

\* an iteration whose buffers are still too short raises nothing and leaves
\* the swings, the histories and the cached gaps as they were
ShortLeavesState ==
    /\ Len(mtf_data_buffer') < 2 * mtf_window_size_sr + 1 =>
          UNCHANGED <<last_confirmed_res_mtf, last_confirmed_sup_mtf>>
    /\ Len(mtf_data_buffer') < 3 =>
          /\ UNCHANGED <<current_mtf_bullish_fvg, current_mtf_bearish_fvg, fvg_result>>
          /\ pc' = "running"
    /\ Len(htf_data_buffer') < 2 * htf_window_size_sh_sl + 1 =>
          UNCHANGED <<last_confirmed_sh, last_confirmed_sl,
                      confirmed_sh_history, confirmed_sl_history>>

\* what a detector's result leaves in the name that keeps it
Kept(found, before) == IF found # None_ THEN found ELSE before

\* an update with enough candles gives what the detectors give on the newest
\* candles of the buffer, whatever was called before
EnoughAsIfFresh ==
    /\ (mtf_data_buffer' # mtf_data_buffer
        /\ Len(mtf_data_buffer') >= 2 * mtf_window_size_sr + 1) =>
          LET window == KeepLast(mtf_data_buffer', 2 * mtf_window_size_sr + 1)
          IN  /\ last_confirmed_res_mtf' =
                    Kept(find_resistance_live(window, mtf_window_size_sr),
                         last_confirmed_res_mtf)
              /\ last_confirmed_sup_mtf' =
                    Kept(find_support_live(window, mtf_window_size_sr),
                         last_confirmed_sup_mtf)
    /\ (mtf_data_buffer' # mtf_data_buffer /\ Len(mtf_data_buffer') >= 3) =>
          fvg_result' = find_fair_value_gaps_live(KeepLast(mtf_data_buffer', 3))
    /\ (htf_data_buffer' # htf_data_buffer
        /\ Len(htf_data_buffer') >= 2 * htf_window_size_sh_sl + 1) =>
          LET window == KeepLast(htf_data_buffer', 2 * htf_window_size_sh_sl + 1)
          IN  /\ last_confirmed_sh' =
                    Kept(find_swing_highs_live(window, htf_window_size_sh_sl),
                         last_confirmed_sh)
              /\ last_confirmed_sl' =
                    Kept(find_swing_lows_live(window, htf_window_size_sh_sl),
                         last_confirmed_sl)

\* C22: with fewer than 2w+1 candles the swing, resistance and support
\* detectors return no signal, and with fewer than 3 candles the FVG detector
\* returns no signal; no error is raised and the last confirmed swings, the
\* histories and the cached FVG do not change; a later call with enough data
\* behaves as if the short call had not happened.
C22_ShortWindowNoSignal ==
    []ShortGivesNothing /\ [][ShortLeavesState /\ EnoughAsIfFresh]_vars

\* the loop has confirmed its first resistance, on the 11th MTF candle, after
\* ten updates on a buffer that was too short
C22_Witness ==
    /\ Len(mtf_data_buffer) = 2 * mtf_window_size_sr + 1
    /\ last_confirmed_res_mtf # None_
    /\ last_confirmed_res_mtf[1] = mtf_data_buffer[mtf_window_size_sr + 1].ts
    /\ frame = NoFrame

\* a direct call on four candles whose middle ones carry the highest high
C22_ShortCall ==
    /\ ShortCall
    /\ Len(frame.df_window) = 2 * htf_window_size_sh_sl
    /\ frame.window_size = htf_window_size_sh_sl
    /\ frame.df_window[2].High > frame.df_window[1].High
    /\ frame.swing_high = None_

\* ---- Properties of the scan loop (Spec): the levels of a position ----

\* stopLoss = p * (1 -/+ slPercent), written as |p - stopLoss| = p * slPercent,
\* and takeProfit = p +/- rrRatio * risk, in the model's money (price * Scale),
\* and the order of the three levels
LevelsOf(type, entry, stop, profit) ==
    IF type = "Long"
    THEN /\ (entry - stop) * SlDen = entry * SlNum
         /\ (profit - entry) * RrDen = RrNum * (entry - stop)
         /\ stop < entry /\ entry < profit
    ELSE /\ (stop - entry) * SlDen = entry * SlNum
         /\ (entry - profit) * RrDen = RrNum * (stop - entry)
         /\ profit < entry /\ entry < stop

\* the parameters are in the range the claim assumes
ParametersInRange == 0 < SlNum /\ SlNum < SlDen /\ 0 < RrNum /\ 0 < RrDen

\* C23: every position is opened at the LTF candle's close p, with Long
\* stopLoss = p*(1-slPercent), takeProfit = p + rrRatio*(p - stopLoss) and
\* Short stopLoss = p*(1+slPercent), takeProfit = p - rrRatio*(stopLoss - p);
\* so an open Long has stopLoss < entryPrice < takeProfit and an open Short
\* takeProfit < entryPrice < stopLoss.
C23_PositionLevels ==
    /\ ParametersInRange
    /\ \A i \in 1..Len(outbox) :
          outbox[i].event = "entry" =>
              /\ outbox[i].EntryPrice > 0
              /\ \E j \in 1..Len(ltf_data_buffer) :
                    outbox[i].EntryPrice = Money(ltf_data_buffer[j].Close)
              /\ LevelsOf(outbox[i].Type, outbox[i].EntryPrice,
                          outbox[i].StopLoss, outbox[i].TakeProfit)
    /\ open_trade # None_ =>
          /\ \E j \in 1..Len(ltf_data_buffer) :
                /\ ltf_data_buffer[j].ts = open_trade.EntryTime
                /\ open_trade.EntryPrice = Money(ltf_data_buffer[j].Close)
          /\ LevelsOf(open_trade.Type, open_trade.EntryPrice,
                      open_trade.StopLoss, open_trade.TakeProfit)

\* a Short opened on the candle of the iteration that has just ended
C23_Witness ==
    /\ open_trade # None_
    /\ open_trade.Type = "Short"
    /\ open_trade.EntryTime = LastOf(ltf_data_buffer).ts
    /\ open_trade.EntryPrice = Money(LastOf(ltf_data_buffer).Close)
    /\ open_trade.TakeProfit < open_trade.EntryPrice
    /\ open_trade.EntryPrice < open_trade.StopLoss

\* a Long is open
C23_LongOpen == open_trade # None_ /\ open_trade.Type = "Long"

\* ---- Properties of SpecNotify: notifications that fail or are skipped ----

\* no send has let an exception out, and the loop has not been left by one
NothingRaised ==
    /\ ~Raised(notifier.last)
    /\ pc \in {"running", "TypeError"}

\* the iteration handed a message of the given kind to the notifier
Handed(kind) ==
    \E i \in (Len(outbox) + 1)..Len(outbox') : outbox'[i].event = kind

\* whatever became of the message, the position is recorded after an entry
\* notification and reset after an exit notification, in the same iteration
RecordedAnyway ==
    /\ Handed("entry") =>
          /\ trade_counter' = trade_counter + 1
          /\ iteration' = iteration + 1
          /\ IF Handed("exit") THEN open_trade' = None_
             ELSE /\ open_trade' # None_
                  /\ open_trade'.EntryTime = LastOf(ltf_data_buffer').ts
                  /\ EntryNotice(open_trade') = LastOf(outbox')
    /\ Handed("exit") =>
          /\ open_trade' = None_
          /\ iteration' = iteration + 1

\* C24: a notification that fails or is skipped (missing credentials, HTTP
\* error, timeout) raises nothing into the loop and changes no engine state:
\* the position is recorded as opened after a failed entry notification and
\* reset to none after a failed exit notification, in the same iteration.
C24_NotifierHarmless ==
    /\ []NothingRaised
    /\ [][ltf_data_buffer' # ltf_data_buffer => (RecordedAnyway /\ InOrderOfSteps)]_vars

\* the entry notification of the iteration that has just ended failed, and the
\* position is open
C24_Witness ==
    /\ notifier.last = "failed"
    /\ open_trade # None_
    /\ open_trade.EntryTime = LastOf(ltf_data_buffer).ts
    /\ LastOf(outbox) = EntryNotice(open_trade)
    /\ pc = "running"

\* the exit notification of the last iteration failed, and no position is open
C24_FailedExit ==
    /\ notifier.last = "failed"
    /\ open_trade = None_
    /\ LastOf(outbox).event = "exit"
    /\ pc = "running"

\* no credentials: a position was opened and closed with every message skipped
C24_Skipped ==
    /\ notifier.base_url = NoneStr
    /\ notifier.last = "skipped"
    /\ open_trade = None_
    /\ LastOf(outbox).event = "exit"

\* ---- Properties of the scan loop (Spec): entry and exit on one candle ----

\* the candle reaches the stop-loss of a position with the given levels
ReachesStop(type, stop, candle) ==
    IF type = "Long" THEN Money(candle.Low) <= stop ELSE Money(candle.High) >= stop

\* the candle reaches its take-profit
ReachesProfit(type, profit, candle) ==
    IF type = "Long" THEN Money(candle.High) >= profit ELSE Money(candle.Low) <= profit

\* the exit message of the iteration, if it handed one over
ExitHanded(result, price) ==
    \E i \in (Len(outbox) + 1)..Len(outbox') :
        /\ outbox'[i].event = "exit"
        /\ outbox'[i].Result = result
        /\ outbox'[i].ExitPrice = price

\* the fate, within the iteration, of the position the iteration opened
OpenedThenChecked ==
    Handed("entry") =>
        LET opened == outbox'[Len(outbox) + 1]
            candle == LastOf(ltf_data_buffer')
            loss == ReachesStop(opened.Type, opened.StopLoss, candle)
            win == ~loss /\ ReachesProfit(opened.Type, opened.TakeProfit, candle)
        IN  /\ opened.event = "entry"
            /\ opened.EntryPrice = Money(candle.Close)
            /\ loss <=> ExitHanded("Loss", opened.StopLoss)
            /\ win <=> ExitHanded("Win", opened.TakeProfit)
            /\ (loss \/ win) <=> open_trade' = None_
            /\ (~loss /\ ~win) <=> (open_trade' # None_ /\ ~Handed("exit"))

\* C25: the exit check of an iteration also applies to a position opened
\* earlier in that iteration, against the LTF candle that triggered the entry:
\* a Long opened at close c is closed as Loss in the same iteration iff the
\* candle's low <= c*(1-slPercent), otherwise as Win iff its high >=
\* takeProfit (mirror for Short); a position can be opened and closed within
\* one iteration.
C25_SameCandleExit == [][OpenedThenChecked]_vars

\* a Long was opened and stopped out by the candle of the last iteration
C25_Witness ==
    /\ Len(outbox) >= 3
    /\ outbox[Len(outbox) - 1].event = "entry"
    /\ outbox[Len(outbox) - 1].Type = "Long"
    /\ outbox[Len(outbox) - 1].EntryPrice = Money(LastOf(ltf_data_buffer).Close)
    /\ LastOf(outbox).event = "exit"
    /\ LastOf(outbox).Result = "Loss"
    /\ Money(LastOf(ltf_data_buffer).Low) <= outbox[Len(outbox) - 1].StopLoss
    /\ open_trade = None_

\* a position opened and closed as Win by one candle
C25_WinOnEntryCandle ==
    /\ Len(outbox) >= 3
    /\ outbox[Len(outbox) - 1].event = "entry"
    /\ outbox[Len(outbox) - 1].EntryPrice = Money(LastOf(ltf_data_buffer).Close)
    /\ LastOf(outbox).event = "exit"
    /\ LastOf(outbox).Result = "Win"
    /\ open_trade = None_

\* a position opened by the candle of the last iteration and left open
C25_StaysOpen ==
    /\ open_trade # None_
    /\ open_trade.EntryTime = LastOf(ltf_data_buffer).ts
    /\ LastOf(outbox).event = "entry"

\* ---- Properties of SpecRetest: breach before confirmation ----

\* the call confirms the entry, whose price is that of the last confirmed
\* level, established before the call's candle
ConfirmsCurrentLevel(side, e, last_confirmed) ==
    /\ Confirms(side, e, frame.candle)
    /\ last_confirmed # None_
    /\ e[1] = last_confirmed[2]
    /\ frame.candle.ts > last_confirmed[1]

\* the price of every entry so confirmed is pending again after the call, with
\* the candle's timestamp
QueuedAgain(side, last_confirmed, before, after) ==
    \A e \in Range(before) :
        ConfirmsCurrentLevel(side, e, last_confirmed)
            => InSeq(<<e[1], frame.candle.ts>>, after)

C26_NotQueuedAgain ==
    /\ RetestCall
    /\ \E e \in Range(frame.rts_before) :
          /\ ConfirmsCurrentLevel("RTS", e, frame.last_confirmed_res)
          /\ \A i \in 1..Len(potential_rts_levels) : potential_rts_levels[i][1] # e[1]

\* a call confirmed the pending entry of the last confirmed resistance and
\* queued its price again with the candle's timestamp
C26_QueuedAgain ==
    /\ RetestCall
    /\ \E e \in Range(frame.rts_before) :
          /\ ConfirmsCurrentLevel("RTS", e, frame.last_confirmed_res)
          /\ ~InSeq(e, potential_rts_levels)
          /\ InSeq(<<e[1], frame.candle.ts>>, potential_rts_levels)

\* the same in the loop (Spec), where the resistance is a candle of the MTF
\* buffer and every candle has a later timestamp: an MTF update that confirms
\* the pending entry of the last confirmed resistance queues its price again
LoopQueuedAgain ==
    mtf_data_buffer' # mtf_data_buffer =>
        \A e \in Range(potential_rts_levels) :
            (/\ ConfirmsRts(e, LastOf(mtf_data_buffer'))
             /\ last_confirmed_res_mtf' # None_
             /\ e[1] = last_confirmed_res_mtf'[2]
             /\ LastOf(mtf_data_buffer').ts > last_confirmed_res_mtf'[1])
            => InSeq(<<e[1], LastOf(mtf_data_buffer').ts>>, potential_rts_levels')

C26_InTheLoop == [][LoopQueuedAgain]_vars

\* the loop confirmed the retest of its last resistance and the price is
\* pending again, with the timestamp of the confirming candle
C26_LoopQueuedAgain ==
    /\ current_mtf_rts_signal # None_
    /\ last_confirmed_res_mtf # None_
    /\ current_mtf_rts_signal[1] = Float(last_confirmed_res_mtf[2])
    /\ InSeq(<<last_confirmed_res_mtf[2], LastOf(mtf_data_buffer).ts>>,
             potential_rts_levels)

\* ---- Properties of the scan loop (Spec): a new swing and the BOS ----

\* the swing the HTF update of this iteration newly confirms, or None_
NewSwingHigh ==
    IF htf_data_buffer' # htf_data_buffer
       /\ Len(htf_data_buffer') >= 2 * htf_window_size_sh_sl + 1
    THEN find_swing_highs_live(KeepLast(htf_data_buffer', 2 * htf_window_size_sh_sl + 1),
                               htf_window_size_sh_sl)
    ELSE None_

NewSwingLow ==
    IF htf_data_buffer' # htf_data_buffer
       /\ Len(htf_data_buffer') >= 2 * htf_window_size_sh_sl + 1
    THEN find_swing_lows_live(KeepLast(htf_data_buffer', 2 * htf_window_size_sh_sl + 1),
                              htf_window_size_sh_sl)
    ELSE None_

\* every candle of the HTF buffer has low <= close <= high
HtfWellFormed ==
    \A i \in 1..Len(htf_data_buffer') :
        /\ htf_data_buffer'[i].Low <= htf_data_buffer'[i].Close
        /\ htf_data_buffer'[i].Close <= htf_data_buffer'[i].High

NoBosOnNewSwing ==
    HtfWellFormed =>
        /\ NewSwingHigh # None_ =>
              /\ last_confirmed_sh' = NewSwingHigh
              /\ LastOf(htf_data_buffer').Close <= NewSwingHigh[2]
              /\ current_htf_bos' # "Bullish BOS"
        /\ NewSwingLow # None_ =>
              /\ last_confirmed_sl' = NewSwingLow
              /\ LastOf(htf_data_buffer').Close >= NewSwingLow[2]
              /\ current_htf_bos' # "Bearish BOS"

\* C27: in an HTF update of the loop in which a swing high is newly confirmed
\* from the last 2w+1 buffered candles, no 'Bullish BOS' is reported for that
\* iteration's candle, provided every candle has close <= high: the candle
\* lies inside the confirming window, so its close cannot exceed the new swing
\* high; symmetrically no 'Bearish BOS' in an update that newly confirms a
\* swing low, given close >= low.
C27_NoBosOnNewSwing == [][NoBosOnNewSwing]_vars

\* the last HTF update confirmed the centre of its window as swing high, in a
\* live iteration, and reported no BOS
C27_Witness ==
    /\ live >= 1
    /\ Len(htf_data_buffer) >= 2 * htf_window_size_sh_sl + 1
    /\ LastOf(htf_data_buffer).ts = LastOf(ltf_data_buffer).ts
    /\ last_confirmed_sh # None_
    /\ last_confirmed_sh[1] =
          htf_data_buffer[Len(htf_data_buffer) - htf_window_size_sh_sl].ts
    /\ current_htf_bos = NoneStr

\* an HTF update reported a Bullish BOS (it confirmed no swing high)
C27_BullishBos == current_htf_bos = "Bullish BOS"

\* ---- Properties of SpecHistory: the swing histories ----

\* the swing highs (lows) of the whole HTF buffer, in buffer order: every
\* candle that is the centre of a window of 2w+1 candles and is confirmed
SwingsOf(buffer, kind) ==
    LET width == 2 * htf_window_size_sh_sl + 1
        found == [i \in 1..(IF Len(buffer) >= width THEN Len(buffer) - width + 1 ELSE 0) |->
                     IF kind = "high"
                     THEN find_swing_highs_live(SubSeq(buffer, i, i + width - 1),
                                                htf_window_size_sh_sl)
                     ELSE find_swing_lows_live(SubSeq(buffer, i, i + width - 1),
                                               htf_window_size_sh_sl)]
    IN  SelectSeq(found, LAMBDA swing : swing # None_)

\* at most 5 swing points, later and later, the most recent ones confirmed,
\* and the last confirmed swing is the newest of them
HistoryKept(history, last_confirmed, kind) ==
    /\ Len(history) <= 5
    /\ \A i \in 1..(Len(history) - 1) : history[i][1] < history[i + 1][1]
    /\ history = KeepLast(SwingsOf(htf_data_buffer, kind), 5)
    /\ (last_confirmed = None_) <=> (history = <<>>)
    /\ history # <<>> => last_confirmed = LastOf(history)

\* C28: after every iteration, given that each HTF update appends one candle
\* with a later timestamp, each HTF swing history holds at most 5 swing
\* points, in strictly increasing timestamp order with no candle recorded
\* twice, always the most recent ones confirmed; last_confirmed_sh (resp.
\* last_confirmed_sl) is undefined iff its history is empty and otherwise
\* equals the history's last element.
C28_HistoriesKept ==
    InOrder(htf_data_buffer) =>
        /\ HistoryKept(confirmed_sh_history, last_confirmed_sh, "high")
        /\ HistoryKept(confirmed_sl_history, last_confirmed_sl, "low")

\* more swing highs were confirmed than the history keeps: it holds the last 5
C28_Witness ==
    /\ Len(SwingsOf(htf_data_buffer, "high")) > 5
    /\ Len(confirmed_sh_history) = 5
    /\ confirmed_sh_history[1] # SwingsOf(htf_data_buffer, "high")[1]
    /\ last_confirmed_sh = LastOf(confirmed_sh_history)

====
